---- MODULE Spec2Model ----
(***************************************************************************)
(* Model of the 4D-STAR libplugin plugin registry (PluginManager):         *)
(* load / unload / get<T> / has and the registry destructor, together with *)
(* the part of the OS loader (dlopen reference counts) and of the plugin   *)
(* libraries (create_plugin / destroy_plugin) that the registry drives.    *)
(***************************************************************************)
EXTENDS Integers, Sequences, FiniteSets, TLC

(***************************************************************************)
(* Bounds                                                                  *)
(***************************************************************************)
\* number of create_plugin() calls explored in one behaviour
MaxCreated == 3

(***************************************************************************)
(* The plugin libraries on disk.  One row per file the host may pass to    *)
(* load(): the test fixtures of tests/test_spec.cpp and the failure shapes *)
(* load() distinguishes.                                                   *)
(*   exists     std::filesystem::exists(path)                              *)
(*   loadable   dlopen() accepts the file                                  *)
(*   create     the library exports create_plugin                          *)
(*   destroy    the library exports destroy_plugin                         *)
(*   makes      create_plugin() returns an instance (not nullptr)          *)
(*   macroName  pluginName given to FOURDST_DECLARE_PLUGIN                 *)
(*   override   literal returned by a get_name() override, "" when the     *)
(*              class keeps IPluginBase::get_name                          *)
(*   bases      the interfaces the plugin class derives from               *)
(***************************************************************************)
NULL == "NULL"

Lib(exists, loadable, create, destroy, makes, macroName, override, bases) ==
    [exists |-> exists, loadable |-> loadable, create |-> create,
     destroy |-> destroy, makes |-> makes, macroName |-> macroName,
     override |-> override, bases |-> bases]

LibTable ==
    [non_existent_plugin |-> Lib(FALSE, FALSE, FALSE, FALSE, FALSE, "", "", {}),
     invalid_library     |-> Lib(TRUE, FALSE, FALSE, FALSE, FALSE, "", "", {}),
     no_factory_plugin   |-> Lib(TRUE, TRUE, FALSE, FALSE, FALSE, "", "", {}),
     create_only_plugin  |-> Lib(TRUE, TRUE, TRUE, FALSE, TRUE, "ValidPlugin", "",
                                 {"IPlugin", "IValidPlugin"}),
     null_factory_plugin |-> Lib(TRUE, TRUE, TRUE, TRUE, FALSE, "", "", {}),
     valid_plugin        |-> Lib(TRUE, TRUE, TRUE, TRUE, TRUE, "ValidPlugin", "",
                                 {"IPlugin", "IValidPlugin"}),
     valid_plugin_moved  |-> Lib(TRUE, TRUE, TRUE, TRUE, TRUE, "ValidPlugin", "",
                                 {"IPlugin", "IValidPlugin"}),
     other_plugin        |-> Lib(TRUE, TRUE, TRUE, TRUE, TRUE, "OtherPlugin", "OtherPlugin",
                                 {"IPlugin", "IOtherInterface"})]

Paths == DOMAIN LibTable

\* std::map<std::string, PluginHandle> iterates its keys in ascending order
NameOrder == <<"NonExistentPlugin", "OtherPlugin", "ValidPlugin">>

PluginNames == {NameOrder[i] : i \in 1..Len(NameOrder)}

Interfaces == {"IPlugin", "IValidPlugin", "IOtherInterface"}

(***************************************************************************)
(* Exceptions (iplugin.h) with the message stem each throw site uses.      *)
(***************************************************************************)
Exception(type, what) == [type |-> type, what |-> what]

NoError == Exception("none", "")

\* PluginLoadError: three throw sites of load(), told apart by their message
LibraryNotFound == Exception("PluginLoadError", "Plugin library not found at path")

LibraryOpenFailed == Exception("PluginLoadError", "Failed to load library")

FactoryReturnedNull == Exception("PluginLoadError", "returned a nullptr")

MissingFactorySymbol == Exception("PluginSymbolError", "Could not find 'create_plugin' or 'destroy_plugin'")

NameCollision == Exception("PluginNameCollisionError", "is already loaded")

NotLoaded == Exception("PluginNotLoadedError", "has not been loaded or does not exist")

TypeMismatch == Exception("PluginTypeError", "is not of type")

(***************************************************************************)
(* State.                                                                  *)
(*   plugins    pimpl->plugins: name -> PluginHandle                       *)
(*   refcnt     the OS loader's reference count of each library            *)
(*   instances  every object create_plugin() has returned, by address      *)
(*              (its index): the library that made it, how often a         *)
(*              destroyer ran on it and which library's destroyer did      *)
(*   events     what the call in progress did, in program order            *)
(*   call       the last call: operation, arguments, exception, result     *)
(*   alive      FALSE once ~PluginManager has run                          *)
(***************************************************************************)
VARIABLES plugins, refcnt, instances, events, call, alive

vars == <<plugins, refcnt, instances, events, call, alive>>

(***************************************************************************)
(* State outside the registry.                                             *)
(*   bundle   the PluginBundle construction in hand (bundle.cpp)           *)
(*   abi      a call of is_abi_compatible: its arguments and its result    *)
(*   disk     a call of unzip_archive: the archive and what it wrote       *)
(*   canon    calls of reconstruct_and_verify and their results            *)
(*   threads  the threads inside member functions of the registry          *)
(*   faults   the libraries whose dlclose fails or whose plugin throws     *)
(*            from its destructor, and what teardown made of it            *)
(*   tmpdir   the system temporary directory and the workspaces in it      *)
(***************************************************************************)
VARIABLES bundle, abi, disk, canon, threads, faults, tmpdir

others == <<bundle, abi, disk, canon, threads, faults, tmpdir>>

NoBundle == [phase |-> "none"]

NoAbi == [phase |-> "none"]

NoDisk == [phase |-> "none"]

NoCanon == [phase |-> "none"]

NoThreads == <<>>

NoFaults == [phase |-> "none"]

NoTmpdir == [phase |-> "none"]

Idle ==
    /\ bundle = NoBundle /\ abi = NoAbi /\ disk = NoDisk
    /\ canon = NoCanon /\ threads = NoThreads /\ faults = NoFaults
    /\ tmpdir = NoTmpdir

nullptr == 0

\* the part of the state the member functions work on
State == [plugins |-> plugins, refcnt |-> refcnt, instances |-> instances,
          events |-> events]

Ev(ev, lib, inst, name) == [ev |-> ev, lib |-> lib, inst |-> inst, name |-> name]

Log(st, e) == [st EXCEPT !.events = Append(@, e)]

(***************************************************************************)
(* The OS loader and the library's exports as load()/unload() use them.    *)
(***************************************************************************)
exists(library_path) == LibTable[library_path].exists

\* dlopen: a handle to the library (the same handle for the same file, its
\* reference count raised) or NULL
dlopen(st, library_path) ==
    IF LibTable[library_path].loadable
    THEN [st  |-> Log([st EXCEPT !.refcnt[library_path] = @ + 1],
                      Ev("dlopen", library_path, nullptr, "")),
          ret |-> library_path]
    ELSE [st |-> st, ret |-> NULL]

\* dlclose: drops one reference; the library is unmapped when none is left
dlclose(st, handle) ==
    Log([st EXCEPT !.refcnt[handle] = @ - 1], Ev("dlclose", handle, nullptr, ""))

\* dlsym: the function pointer, named by the library that exports it, or NULL
dlsym(handle, symbol) ==
    IF (symbol = "create_plugin" /\ LibTable[handle].create)
       \/ (symbol = "destroy_plugin" /\ LibTable[handle].destroy)
    THEN handle
    ELSE NULL

\* create_plugin of FOURDST_DECLARE_PLUGIN: new className(pluginName, pluginVersion)
create_plugin(st, lib) ==
    IF LibTable[lib].makes
    THEN LET p == Len(st.instances) + 1
         IN [st  |-> Log([st EXCEPT !.instances =
                              Append(@, [lib |-> lib,
                                         m_plugin_name |-> LibTable[lib].macroName,
                                         destroyed |-> 0, destroyedBy |-> NULL,
                                         mapped |-> TRUE])],
                         Ev("create", lib, p, "")),
             ret |-> p]
    ELSE [st |-> st, ret |-> nullptr]

\* destroy_plugin of FOURDST_DECLARE_PLUGIN: delete plugin.  `mapped` records
\* whether the destroyer's library and the instance's were still loaded.
destroy_plugin(st, destroyer, p) ==
    Log([st EXCEPT !.instances[p] =
             [@ EXCEPT !.destroyed = @ + 1, !.destroyedBy = destroyer,
                       !.mapped = @ /\ st.refcnt[destroyer] > 0
                                    /\ st.refcnt[st.instances[p].lib] > 0]],
        Ev("destroy", destroyer, p, ""))

\* IPluginBase::get_name, or the override of the plugin class
get_name(st, p) ==
    LET lib == st.instances[p].lib
    IN IF LibTable[lib].override /= "" THEN LibTable[lib].override
       ELSE st.instances[p].m_plugin_name

\* dynamic_cast<T*>(plugin)
dynamic_cast(st, T, p) ==
    IF p = nullptr THEN nullptr
    ELSE IF T \in LibTable[st.instances[p].lib].bases THEN p ELSE nullptr

(***************************************************************************)
(* PluginManager (plugin_manager.cpp).  Each member function maps the      *)
(* state to the state it leaves, with the exception it throws (NoError     *)
(* when it returns) and its return value.                                  *)
(***************************************************************************)
\* PluginDeleter::operator(): if (p && destroyer) destroyer(p)
PluginDeleter(st, destroyer, p) ==
    IF p /= nullptr /\ destroyer /= NULL
    THEN destroy_plugin(st, destroyer, p)
    ELSE st

\* Impl::PluginHandle as stored by load()
\* a handle whose deleter was default-constructed: no destroyer is stored
PluginHandle_default_deleter(p, destroyer, handle) ==
    [instance |-> [ptr |-> p, destroyer |-> NULL], library_handle |-> handle]

PluginHandle(p, destroyer, handle) ==
    [instance |-> [ptr |-> p, destroyer |-> destroyer], library_handle |-> handle]

\* std::unique_ptr<IPlugin, PluginDeleter>::reset() and ~unique_ptr of the
\* handle stored under plugin_name: the deleter runs on a non-null pointer,
\* which is then null
reset(st, plugin_name) ==
    LET instance == st.plugins[plugin_name].instance
        s1 == IF instance.ptr /= nullptr
              THEN PluginDeleter(st, instance.destroyer, instance.ptr)
              ELSE st
    IN [s1 EXCEPT !.plugins[plugin_name].instance.ptr = nullptr]

\* erase() that leaves the entry in the map
erase_keeps_entry(st, plugin_name) ==
    Log(reset(st, plugin_name), Ev("erase", NULL, nullptr, plugin_name))

\* std::map::erase(it): destroys the PluginHandle (and with it its unique_ptr)
erase(st, plugin_name) ==
    LET s1 == reset(st, plugin_name)
    IN Log([s1 EXCEPT !.plugins = [n \in DOMAIN s1.plugins \ {plugin_name} |-> s1.plugins[n]]],
           Ev("erase", NULL, nullptr, plugin_name))

\* the symbol test looking for create_plugin only
missing_symbol_creator_only(creator, destroyer) == creator = NULL

\* load(), the symbol test: if (!creator || !destroyer)
missing_symbol(creator, destroyer) == creator = NULL \/ destroyer = NULL

\* load() storing the handle under the library's file name
register_by_filename(st, handle, destroyer, raw_instance) ==
    IF handle \in DOMAIN st.plugins
    THEN [st  |-> dlclose(destroy_plugin(st, destroyer, raw_instance), handle),
          err |-> NameCollision]
    ELSE [st  |-> Log([st EXCEPT !.plugins =
                           @ @@ (handle :> PluginHandle(raw_instance, destroyer, handle))],
                      Ev("insert", handle, raw_instance, handle)),
          err |-> NoError]

\* load() throwing NameCollision without releasing what it made and opened
register_leak_on_collision(st, handle, destroyer, raw_instance) ==
    LET plugin_name == get_name(st, raw_instance)
    IN IF plugin_name \in DOMAIN st.plugins
       THEN [st |-> st, err |-> NameCollision]
       ELSE [st  |-> Log([st EXCEPT !.plugins =
                              @ @@ (plugin_name :> PluginHandle(raw_instance, destroyer, handle))],
                         Ev("insert", handle, raw_instance, plugin_name)),
             err |-> NoError]

\* load() without the collision test: operator[] finds the first handle and
\* the assignments replace its instance and its library handle
register_overwrite(st, handle, destroyer, raw_instance) ==
    LET plugin_name == get_name(st, raw_instance)
        s1 == IF plugin_name \in DOMAIN st.plugins THEN reset(st, plugin_name) ELSE st
    IN [st  |-> Log([s1 EXCEPT !.plugins =
                         (plugin_name :> PluginHandle(raw_instance, destroyer, handle)) @@ @],
                    Ev("insert", handle, raw_instance, plugin_name)),
        err |-> NoError]

\* load(), from get_name() on: the collision test and the insertion under
\* the name the instance reports
\* register that closes the library of a colliding plugin but lets go of
\* the instance without destroying it
register_forget_instance(st, handle, destroyer, raw_instance) ==
    LET plugin_name == get_name(st, raw_instance)
    IN IF plugin_name \in DOMAIN st.plugins
       THEN [st |-> dlclose(st, handle), err |-> NameCollision]
       ELSE [st  |-> Log([st EXCEPT !.plugins =
                              @ @@ (plugin_name :> PluginHandle(raw_instance, destroyer, handle))],
                         Ev("insert", handle, raw_instance, plugin_name)),
             err |-> NoError]

register(st, handle, destroyer, raw_instance) ==
    LET plugin_name == get_name(st, raw_instance)
    IN IF plugin_name \in DOMAIN st.plugins
       THEN [st  |-> dlclose(destroy_plugin(st, destroyer, raw_instance), handle),
             err |-> NameCollision]
       ELSE [st  |-> Log([st EXCEPT !.plugins =
                              @ @@ (plugin_name :> PluginHandle(raw_instance, destroyer, handle))],
                         Ev("insert", handle, raw_instance, plugin_name)),
             err |-> NoError]

\* PluginManager::load
load(st, library_path) ==
    IF ~exists(library_path)
    THEN [st |-> st, err |-> LibraryNotFound]
    ELSE
    LET opened == dlopen(st, library_path)
        handle == opened.ret
    IN
    IF handle = NULL
    THEN [st |-> opened.st, err |-> LibraryOpenFailed]
    ELSE
    LET creator   == dlsym(handle, "create_plugin")
        destroyer == dlsym(handle, "destroy_plugin")
    IN
    IF missing_symbol(creator, destroyer)
    THEN [st |-> dlclose(opened.st, handle), err |-> MissingFactorySymbol]
    ELSE
    LET created      == create_plugin(opened.st, creator)
        raw_instance == created.ret
    IN
    IF raw_instance = nullptr
    THEN [st |-> dlclose(created.st, handle), err |-> FactoryReturnedNull]
    ELSE
    register(created.st, handle, destroyer, raw_instance)

\* unload() without the lookup: operator[] makes an entry for an absent name
unload_unchecked(st, plugin_name) ==
    IF plugin_name \in DOMAIN st.plugins
    THEN LET s1 == reset(st, plugin_name)
             s2 == dlclose(s1, s1.plugins[plugin_name].library_handle)
         IN erase(s2, plugin_name)
    ELSE Log(st, Ev("erase", NULL, nullptr, plugin_name))

\* unload() closing the library before it destroys the instance
unload_close_first(st, plugin_name) ==
    IF plugin_name \in DOMAIN st.plugins
    THEN erase(dlclose(st, st.plugins[plugin_name].library_handle), plugin_name)
    ELSE st

\* PluginManager::unload
\* unload that destroys the instance and closes the library but leaves the
\* emptied handle in the map
unload_without_erase(st, plugin_name) ==
    IF plugin_name \in DOMAIN st.plugins
    THEN dlclose(reset(st, plugin_name), st.plugins[plugin_name].library_handle)
    ELSE st

unload(st, plugin_name) ==
    IF plugin_name \in DOMAIN st.plugins
    THEN LET s1 == reset(st, plugin_name)
             s2 == dlclose(s1, s1.plugins[plugin_name].library_handle)
         IN erase(s2, plugin_name)
    ELSE st

\* PluginManager::get_raw
get_raw(st, plugin_name) ==
    IF plugin_name \in DOMAIN st.plugins
    THEN st.plugins[plugin_name].instance.ptr
    ELSE nullptr

\* get<T> with a static_cast in place of the dynamic_cast
get_static_cast(st, T, plugin_name) ==
    LET plugin == get_raw(st, plugin_name)
    IN IF plugin = nullptr
       THEN [st |-> st, err |-> NotLoaded, ret |-> nullptr]
       ELSE [st |-> st, err |-> NoError, ret |-> plugin]

\* get<T> without the test of get_raw's result
get_no_null_check(st, T, plugin_name) ==
    LET casted_plugin == dynamic_cast(st, T, get_raw(st, plugin_name))
    IN IF casted_plugin = nullptr
       THEN [st |-> st, err |-> TypeMismatch, ret |-> nullptr]
       ELSE [st |-> st, err |-> NoError, ret |-> casted_plugin]

\* get<T> that unloads a plugin found to be of another type
get_unloads_mismatched(st, T, plugin_name) ==
    LET plugin == get_raw(st, plugin_name)
    IN IF plugin = nullptr
       THEN [st |-> st, err |-> NotLoaded, ret |-> nullptr]
       ELSE LET casted_plugin == dynamic_cast(st, T, plugin)
            IN IF casted_plugin = nullptr
               THEN [st |-> unload(st, plugin_name), err |-> TypeMismatch,
                     ret |-> nullptr]
               ELSE [st |-> st, err |-> NoError, ret |-> casted_plugin]

\* PluginManager::get<T>
get(st, T, plugin_name) ==
    LET plugin == get_raw(st, plugin_name)
    IN IF plugin = nullptr
       THEN [st |-> st, err |-> NotLoaded, ret |-> nullptr]
       ELSE LET casted_plugin == dynamic_cast(st, T, plugin)
            IN IF casted_plugin = nullptr
               THEN [st |-> st, err |-> TypeMismatch, ret |-> nullptr]
               ELSE [st |-> st, err |-> NoError, ret |-> casted_plugin]

\* PluginManager::has: boolean presence test
has(st, plugin_name) == plugin_name \in DOMAIN st.plugins

\* the keys of pimpl->plugins in the order the map iterates them
\* the loop of a destructor that walks the map from its last key
names_descending(st) ==
    [i \in 1..Cardinality(DOMAIN st.plugins) |->
        SelectSeq(NameOrder, LAMBDA n : n \in DOMAIN st.plugins)
            [Cardinality(DOMAIN st.plugins) + 1 - i]]

names_to_unload(st) == SelectSeq(NameOrder, LAMBDA n : n \in DOMAIN st.plugins)

RECURSIVE unload_each(_, _)
\* for (const auto& name : names_to_unload) unload(name)
unload_each(st, names) ==
    IF names = <<>> THEN st
    ELSE unload_each(unload(st, Head(names)), Tail(names))

RECURSIVE erase_each(_, _)
erase_each(st, names) ==
    IF names = <<>> THEN st
    ELSE erase_each(erase(st, Head(names)), Tail(names))

\* a defaulted destructor: the map destroys its handles, nothing is closed
destroy_manager_default(st) == erase_each(st, names_to_unload(st))

\* PluginManager::~PluginManager
destroy_manager(st) == unload_each(st, names_to_unload(st))

(***************************************************************************)
(* The state machine: the host calls the singleton's member functions one  *)
(* at a time; the destructor runs once, at process exit.                   *)
(***************************************************************************)
Call(op, arg, T, err, ret, found) ==
    [op |-> op, arg |-> arg, T |-> T, err |-> err, ret |-> ret, found |-> found]

Fresh(st) == [st EXCEPT !.events = <<>>]

Becomes(st) ==
    /\ plugins' = st.plugins
    /\ refcnt' = st.refcnt
    /\ instances' = st.instances
    /\ events' = st.events

PluginManager ==
    /\ plugins = <<>>
    /\ refcnt = [l \in Paths |-> 0]
    /\ instances = <<>>
    /\ events = <<>>
    /\ call = Call("PluginManager", "", "", NoError, nullptr, FALSE)
    /\ alive = TRUE

Init ==
    /\ PluginManager
    /\ Idle

Load(library_path) ==
    /\ alive
    /\ LET r == load(Fresh(State), library_path)
       IN /\ Len(r.st.instances) <= MaxCreated
          /\ Becomes(r.st)
          /\ call' = Call("load", library_path, "", r.err, nullptr, FALSE)
    /\ UNCHANGED <<alive, others>>

Unload(plugin_name) ==
    /\ alive
    /\ Becomes(unload(Fresh(State), plugin_name))
    /\ call' = Call("unload", plugin_name, "", NoError, nullptr, FALSE)
    /\ UNCHANGED <<alive, others>>

Get(T, plugin_name) ==
    /\ alive
    /\ LET r == get(Fresh(State), T, plugin_name)
       IN /\ Becomes(r.st)
          /\ call' = Call("get", plugin_name, T, r.err, r.ret, FALSE)
    /\ UNCHANGED <<alive, others>>

Has(plugin_name) ==
    /\ alive
    /\ Becomes(Fresh(State))
    /\ call' = Call("has", plugin_name, "", NoError, nullptr, has(State, plugin_name))
    /\ UNCHANGED <<alive, others>>

Destroy ==
    /\ alive
    /\ Becomes(destroy_manager(Fresh(State)))
    /\ call' = Call("~PluginManager", "", "", NoError, nullptr, FALSE)
    /\ alive' = FALSE
    /\ UNCHANGED others

Next ==
    \/ \E library_path \in Paths : Load(library_path)
    \/ \E plugin_name \in PluginNames : Unload(plugin_name)
    \/ \E T \in Interfaces, plugin_name \in PluginNames : Get(T, plugin_name)
    \/ \E plugin_name \in PluginNames : Has(plugin_name)
    \/ Destroy

Spec == Init /\ [][Next]_vars

(***************************************************************************)
(* Properties of the registry.  A property of one call is stated on the    *)
(* step that makes it: call' names the call, the unprimed variables the    *)
(* state it was made in.                                                   *)
(***************************************************************************)
\* what the instance create_plugin() of a library makes reports as its name
ReportedName(lib) ==
    IF LibTable[lib].override /= "" THEN LibTable[lib].override ELSE LibTable[lib].macroName

\* the library would get as far as reporting a name
Instantiates(lib) ==
    /\ LibTable[lib].exists /\ LibTable[lib].loadable
    /\ LibTable[lib].create /\ LibTable[lib].destroy /\ LibTable[lib].makes

Registered == DOMAIN plugins

\* C1: unload(name) of a registered plugin runs the destroyer of the
\* instance's own library on the instance exactly once, while that library
\* is still loaded, then closes the handle, then removes the entry.
C1_UnloadDestroysThenClosesThenErases ==
    [][\A n \in PluginNames :
         (call'.op = "unload" /\ call'.arg = n /\ n \in Registered) =>
            LET h == plugins[n]
                p == h.instance.ptr
            IN /\ p /= nullptr
               /\ events' = <<Ev("destroy", instances[p].lib, p, ""),
                              Ev("dlclose", h.library_handle, nullptr, ""),
                              Ev("erase", NULL, nullptr, n)>>
               /\ h.library_handle = instances[p].lib
               /\ instances[p].destroyed = 0
               /\ instances'[p].destroyed = 1
               /\ instances'[p].mapped
               /\ refcnt'[h.library_handle] = refcnt[h.library_handle] - 1
               /\ n \notin Registered'
               /\ call'.err = NoError]_vars

\* an unload that found its plugin has run
C1_Witness ==
    /\ call.op = "unload"
    /\ Len(events) = 3
    /\ events[1].ev = "destroy"

\* C2: the destructor unloads every handle still registered, each one
\* instance first, library second; afterwards the registry is empty, every
\* instance ever created has been destroyed once and no library is open.
C2_DestructorUnloadsEveryHandle ==
    [][call'.op = "~PluginManager" =>
         /\ \A n \in Registered :
              LET h == plugins[n]
              IN \E i \in 1..Len(events') :
                   /\ i + 2 <= Len(events')
                   /\ events'[i] = Ev("destroy", h.library_handle, h.instance.ptr, "")
                   /\ events'[i + 1] = Ev("dlclose", h.library_handle, nullptr, "")
                   /\ events'[i + 2] = Ev("erase", NULL, nullptr, n)
         /\ Len(events') = 3 * Cardinality(Registered)
         /\ Registered' = {}
         /\ \A i \in 1..Len(instances') :
              instances'[i].destroyed = 1 /\ instances'[i].mapped
         /\ \A l \in Paths : refcnt'[l] = 0]_vars

\* the destructor has run on a registry that held two plugins
C2_Witness ==
    /\ ~alive
    /\ call.op = "~PluginManager"
    /\ Len(events) = 6

\* C3: a load whose plugin reports a name that is already registered fails
\* with NameCollision and leaves the first load's state as it was: the same
\* entry, the first instance not destroyed, its library as open as before.
C3_SecondLoadOfNameCollides ==
    [][\A path \in Paths :
         (call'.op = "load" /\ call'.arg = path /\ Instantiates(path)
            /\ ReportedName(path) \in Registered) =>
            LET n == ReportedName(path)
                first == plugins[n].instance.ptr
            IN /\ call'.err = NameCollision
               /\ plugins' = plugins
               /\ refcnt' = refcnt
               /\ SubSeq(instances', 1, Len(instances)) = instances
               /\ instances'[first].destroyed = 0
               /\ refcnt'[plugins'[n].library_handle] > 0
               /\ n \in Registered']_vars

\* the same library file has been loaded a second time
C3_Witness ==
    /\ call.op = "load"
    /\ call.err = NameCollision
    /\ \E n \in Registered : plugins[n].library_handle = call.arg

\* C4: has(n) is true iff a load of a plugin reporting n succeeded and no
\* unload(n) followed it: false at first, made true only by a successful
\* load of a library whose plugin reports n, made false only by unload(n);
\* and has() itself returns that value and throws nothing.
C4_HasIffLoadedAndNotUnloaded ==
    /\ \A n \in PluginNames : ~has(State, n)
    /\ [][call'.op \in {"load", "unload", "get", "has"} =>
            /\ \A n \in PluginNames :
                 has([plugins |-> plugins'], n) <=>
                    \/ has(State, n) /\ ~(call'.op = "unload" /\ call'.arg = n)
                    \/ /\ call'.op = "load" /\ call'.err = NoError
                       /\ Instantiates(call'.arg) /\ ReportedName(call'.arg) = n
            /\ call'.op = "has" =>
                 call'.err = NoError /\ call'.found = has(State, call'.arg)]_vars

\* has() answers TRUE for a plugin that is loaded, after another was unloaded
C4_Witness ==
    /\ call.op = "has"
    /\ call.found
    /\ \E i \in 1..Len(instances) : instances[i].destroyed = 1

\* C5: get<T>(name) right after a successful load(p), with the name given to
\* the authoring macro in p and an interface T the plugin class implements,
\* returns the instance that load created, alive, and its name is that name.
C5_GetReturnsTheLoadedInstance ==
    [][(/\ call.op = "load" /\ call.err = NoError
        /\ call'.op = "get"
        /\ call'.arg = LibTable[call.arg].macroName
        /\ call'.T \in LibTable[call.arg].bases) =>
          /\ call'.err = NoError
          /\ call'.ret /= nullptr
          /\ \E i \in 1..Len(events) : events[i] = Ev("create", call.arg, call'.ret, "")
          /\ instances'[call'.ret].lib = call.arg
          /\ instances'[call'.ret].destroyed = 0
          /\ get_name([instances |-> instances'], call'.ret) = LibTable[call.arg].macroName
          /\ call.arg \notin Registered']_vars

\* a typed get has returned the plugin
C5_Witness ==
    /\ call.op = "get"
    /\ call.T = "IValidPlugin"
    /\ call.err = NoError
    /\ call.ret /= nullptr

\* C6: get<T>(n) on a registered plugin whose class does not implement T
\* fails with TypeMismatch and changes nothing.
C6_TypeMismatchKeepsPluginLoaded ==
    [][(/\ call'.op = "get"
        /\ call'.arg \in Registered
        /\ call'.T \notin LibTable[instances[plugins[call'.arg].instance.ptr].lib].bases) =>
          /\ call'.err = TypeMismatch
          /\ plugins' = plugins
          /\ instances' = instances
          /\ refcnt' = refcnt
          /\ instances'[plugins'[call'.arg].instance.ptr].destroyed = 0]_vars

\* a get has failed on the type of a registered plugin
C6_Witness ==
    /\ call.op = "get"
    /\ call.err = TypeMismatch
    /\ call.arg \in Registered

\* C7: get<T>(n) fails with NotLoaded exactly when n is not registered.
C7_NotLoadedIffAbsent ==
    [][call'.op = "get" => (call'.err = NotLoaded <=> call'.arg \notin Registered)]_vars

\* get fails with NotLoaded on a name that was loaded and then unloaded
C7_Witness ==
    /\ call.op = "get"
    /\ call.err = NotLoaded
    /\ \E i \in 1..Len(instances) :
         /\ get_name(State, i) = call.arg
         /\ instances[i].destroyed = 1
         /\ instances[i].lib = "other_plugin"

\* the failure load(path) must end in, in the order the checks are claimed
ExpectedLoadError(path, registered) ==
    IF ~LibTable[path].exists THEN LibraryNotFound
    ELSE IF ~LibTable[path].loadable THEN LibraryOpenFailed
    ELSE IF ~(LibTable[path].create /\ LibTable[path].destroy) THEN MissingFactorySymbol
    ELSE IF ~LibTable[path].makes THEN FactoryReturnedNull
    ELSE IF ReportedName(path) \in registered THEN NameCollision
    ELSE NoError

\* C8: load fails with the first of LibraryNotFound, LibraryOpenFailed,
\* MissingFactorySymbol, FactoryReturnedNull, NameCollision whose condition
\* holds, and a failing load leaves the registry map as it was.
C8_LoadFailsInOrderAndKeepsRegistry ==
    [][call'.op = "load" =>
         /\ call'.err = ExpectedLoadError(call'.arg, Registered)
         /\ call'.err /= NoError => plugins' = plugins]_vars

\* a library lacking destroy_plugin is refused for the missing symbol although
\* the name its plugin would report is taken
C8_Witness ==
    /\ call.op = "load"
    /\ call.arg = "create_only_plugin"
    /\ call.err = MissingFactorySymbol
    /\ "ValidPlugin" \in Registered

\* C9: a load that fails after dlopen succeeded has closed the handle it
\* opened by the time it throws; on NameCollision it has first destroyed the
\* instance it created, with the destroyer of that same library.
C9_FailedLoadClosesWhatItOpened ==
    (call.op = "load" /\ call.err \in {MissingFactorySymbol, FactoryReturnedNull, NameCollision}) =>
       /\ events[1] = Ev("dlopen", call.arg, nullptr, "")
       /\ events[Len(events)] = Ev("dlclose", call.arg, nullptr, "")
       /\ Cardinality({i \in 1..Len(events) : events[i].ev \in {"dlopen", "dlclose"}}) = 2
       /\ call.err = NameCollision =>
            /\ Len(events) = 4
            /\ events[2].ev = "create"
            /\ events[3] = Ev("destroy", call.arg, events[2].inst, "")
            /\ instances[events[2].inst].destroyed = 1
            /\ instances[events[2].inst].mapped
       /\ call.err /= NameCollision => Len(events) = 2

\* a colliding load has destroyed its instance and closed its library
C9_Witness ==
    /\ call.op = "load"
    /\ call.err = NameCollision
    /\ Len(events) = 4
    /\ events[3].ev = "destroy"

\* C10: unload(name) of a name that is not registered returns normally and
\* does nothing: no destroyer runs, no library is closed, no entry changes.
C10_UnloadOfAbsentNameIsNoOp ==
    [][(call'.op = "unload" /\ call'.arg \notin Registered) =>
          /\ call'.err = NoError
          /\ events' = <<>>
          /\ plugins' = plugins
          /\ instances' = instances
          /\ refcnt' = refcnt]_vars

\* unload was called on an absent name while another plugin was registered
C10_Witness ==
    /\ call.op = "unload"
    /\ call.arg \notin Registered
    /\ events = <<>>
    /\ Registered /= {}

(***************************************************************************)
(* ABI signatures (bundle.cpp).                                            *)
(*                                                                         *)
(* A string is a sequence of characters.  A run of characters that holds   *)
(* no delimiter and no digit (a compiler name, a library name, an ABI      *)
(* tag) is written as one element of the sequence.                         *)
(***************************************************************************)
MaxVersionLen == 3

INT_MAX == 2147483647

DigitValue ==
    [c \in {"0", "1", "2", "3", "4", "5", "6", "7", "8", "9"} |->
        CASE c = "0" -> 0 [] c = "1" -> 1 [] c = "2" -> 2 [] c = "3" -> 3
          [] c = "4" -> 4 [] c = "5" -> 5 [] c = "6" -> 6 [] c = "7" -> 7
          [] c = "8" -> 8 [] c = "9" -> 9]

isspace(c) == c = " "

isdigit(c) == c \in DOMAIN DigitValue

\* The index of the first occurrence of delim in s, 0 if there is none.
find(s, delim) ==
    IF \E i \in 1..Len(s) : s[i] = delim
    THEN CHOOSE i \in 1..Len(s) :
            s[i] = delim /\ \A j \in 1..(i - 1) : s[j] # delim
    ELSE 0

\* while (std::getline(ss, item, delim)) parts.push_back(item);
\* the text after a trailing delimiter is at end of stream: no item.
RECURSIVE getline(_, _)
getline(s, delim) ==
    IF s = <<>> THEN <<>>
    ELSE LET i == find(s, delim)
         IN IF i = 0 THEN <<s>>
            ELSE <<SubSeq(s, 1, i - 1)>> \o getline(SubSeq(s, i + 1, Len(s)), delim)

RECURSIVE skip_space(_)
skip_space(s) ==
    IF s # <<>> /\ isspace(Head(s)) THEN skip_space(Tail(s)) ELSE s

RECURSIVE digits_value(_, _)
digits_value(s, acc) ==
    IF s # <<>> /\ isdigit(Head(s))
    THEN digits_value(Tail(s), 10 * acc + DigitValue[Head(s)])
    ELSE acc

\* std::stoi: leading white space, an optional sign, then the longest run
\* of digits; what follows the digits is ignored.
stoi(str) ==
    LET t == skip_space(str)
        negative == t # <<>> /\ Head(t) = "-"
        u == IF t # <<>> /\ Head(t) \in {"+", "-"} THEN Tail(t) ELSE t
        v == digits_value(u, 0)
    IN IF u = <<>> \/ ~isdigit(Head(u)) THEN [thrown |-> "invalid_argument"]
       ELSE IF v > INT_MAX + (IF negative THEN 1 ELSE 0)
            THEN [thrown |-> "out_of_range"]
            ELSE [thrown |-> NULL, value |-> IF negative THEN 0 - v ELSE v]

nullopt == [has_value |-> FALSE]

ABISignature(compiler, library, version_parts, abi_type) ==
    [has_value |-> TRUE, compiler |-> compiler, library |-> library,
     version_parts |-> version_parts, abi_type |-> abi_type]

parse_abi_signature(sig_str) ==
    LET parts == getline(sig_str, "-")
    IN IF Len(parts) # 4 THEN nullopt
       ELSE LET numbers == [i \in DOMAIN getline(parts[3], ".") |->
                                stoi(getline(parts[3], ".")[i])]
            IN IF \E i \in DOMAIN numbers : numbers[i].thrown # NULL
               THEN nullopt
               ELSE ABISignature(parts[1], parts[2],
                                 [i \in DOMAIN numbers |-> numbers[i].value],
                                 parts[4])

min(a, b) == IF a < b THEN a ELSE b

\* The loop of is_abi_compatible from index i on (i counts from 1 here).
RECURSIVE compare_versions(_, _, _)
compare_versions(local_v, req_v, i) ==
    IF i > min(Len(local_v), Len(req_v)) THEN Len(local_v) >= Len(req_v)
    ELSE IF local_v[i] > req_v[i] THEN TRUE
    ELSE IF local_v[i] < req_v[i] THEN FALSE
    ELSE compare_versions(local_v, req_v, i + 1)

\* A variant that accepts only on a strictly greater component or on
\* version vectors of the same length.
is_abi_compatible_same_length(local, required) ==
    /\ local.compiler = required.compiler
    /\ local.library = required.library
    /\ local.abi_type = required.abi_type
    /\ \/ \E i \in 1..min(Len(local.version_parts), Len(required.version_parts)) :
            /\ local.version_parts[i] > required.version_parts[i]
            /\ \A j \in 1..(i - 1) :
                 local.version_parts[j] = required.version_parts[j]
       \/ local.version_parts = required.version_parts

is_abi_compatible(local, required) ==
    IF \/ local.compiler # required.compiler
       \/ local.library # required.library
       \/ local.abi_type # required.abi_type
    THEN FALSE
    ELSE compare_versions(local.version_parts, required.version_parts, 1)

(***************************************************************************)
(* Calls of is_abi_compatible on signatures drawn from bounded sets.       *)
(***************************************************************************)
VersionParts == {0, 3, 4, 9}

Versions ==
    UNION {[1..n -> VersionParts] : n \in 0..MaxVersionLen}

\* getHostABISignature: the two supported platforms, without a version.
HostFamilies ==
    {ABISignature(<<"gcc">>, <<"libstdc++">>, <<>>, <<"cxx11_abi">>),
     ABISignature(<<"clang">>, <<"libc++">>, <<>>, <<"libc++_abi">>)}

RequiredFamilies ==
    {ABISignature(<<"gcc">>, <<"libstdc++">>, <<>>, <<"cxx11_abi">>),
     ABISignature(<<"clang">>, <<"libc++">>, <<>>, <<"libc++_abi">>),
     ABISignature(<<"clang">>, <<"libstdc++">>, <<>>, <<"cxx11_abi">>),
     ABISignature(<<"gcc">>, <<"libc++">>, <<>>, <<"cxx11_abi">>),
     ABISignature(<<"gcc">>, <<"libstdc++">>, <<>>, <<"libc++_abi">>)}

WithVersion(family, version_parts) ==
    [family EXCEPT !.version_parts = version_parts]

InitAbi ==
    /\ PluginManager
    /\ bundle = NoBundle
    /\ disk = NoDisk
    /\ canon = NoCanon
    /\ threads = NoThreads
    /\ faults = NoFaults
    /\ tmpdir = NoTmpdir
    /\ \E f \in HostFamilies, g \in RequiredFamilies, v \in Versions, w \in Versions :
         abi = [phase |-> "called", local |-> WithVersion(f, v),
                required |-> WithVersion(g, w), ret |-> FALSE]

Compare ==
    /\ abi.phase = "called"
    /\ abi' = [abi EXCEPT !.phase = "returned",
                          !.ret = is_abi_compatible(abi.local, abi.required)]
    /\ UNCHANGED <<vars, bundle, disk, canon, threads, faults, tmpdir>>

NextAbi == Compare

SpecAbi == InitAbi /\ [][NextAbi]_<<vars, others>>

\* host >= required, component by component; a longer host version whose
\* shared prefix is equal counts as >=.
VersionAtLeast(host, required) ==
    \/ \E i \in 1..min(Len(host), Len(required)) :
         /\ host[i] > required[i]
         /\ \A j \in 1..(i - 1) : host[j] = required[j]
    \/ /\ \A j \in 1..min(Len(host), Len(required)) : host[j] = required[j]
       /\ Len(host) >= Len(required)

SameFamily(a, b) ==
    a.compiler = b.compiler /\ a.library = b.library /\ a.abi_type = b.abi_type

\* C18: is_abi_compatible(host, required) is true exactly when compiler,
\* standard library and ABI tag are equal and the host version is
\* lexicographically >= the required version (a longer host version with an
\* equal shared prefix counts as >=); host 3.4.0 and host 3.4 are compatible
\* with required 3.4, host 3.3.9 is not, and a signature is compatible with
\* itself.
C18_AbiCompatibleIffSameFamilyAndNotOlder ==
    abi.phase = "returned" =>
        /\ abi.ret = (/\ SameFamily(abi.local, abi.required)
                      /\ VersionAtLeast(abi.local.version_parts,
                                        abi.required.version_parts))
        /\ (/\ SameFamily(abi.local, abi.required)
            /\ abi.required.version_parts = <<3, 4>>)
           => /\ abi.local.version_parts \in {<<3, 4, 0>>, <<3, 4>>} => abi.ret
              /\ abi.local.version_parts = <<3, 3, 9>> => ~abi.ret
        /\ abi.local = abi.required => abi.ret

C18_Witness ==
    /\ abi.phase = "returned"
    /\ SameFamily(abi.local, abi.required)
    /\ abi.local.version_parts = <<3, 4, 0>>
    /\ abi.required.version_parts = <<3, 4>>
    /\ abi.ret

(***************************************************************************)
(* Archive extraction (bundle.cpp, unzip_archive).                         *)
(*                                                                         *)
(* A std::filesystem::path is a record: whether it has a root directory,   *)
(* and its sequence of file names.  A location of the file system is the   *)
(* sequence of names from the root.                                        *)
(***************************************************************************)
MaxEntries == 2

Path(is_absolute, names) == [is_absolute |-> is_absolute, names |-> names]

\* fs::path(const char*): the text is cut at the directory separators.
RECURSIVE names_of(_)
names_of(parts) ==
    IF parts = <<>> THEN <<>>
    ELSE IF Head(parts) = <<>> THEN names_of(Tail(parts))
    ELSE <<Head(parts)[1]>> \o names_of(Tail(parts))

fs_path(filename) ==
    Path(filename # <<>> /\ Head(filename) = "/", names_of(getline(filename, "/")))

\* path::lexically_normal: "." is dropped, "name/.." is dropped, ".." right
\* after the root is dropped, a leading ".." of a relative path is kept.
RECURSIVE normal_names(_, _, _)
normal_names(is_absolute, done, rest) ==
    IF rest = <<>> THEN done
    ELSE IF Head(rest) = "." THEN normal_names(is_absolute, done, Tail(rest))
    ELSE IF Head(rest) = ".."
         THEN IF done # <<>> /\ done[Len(done)] # ".."
              THEN normal_names(is_absolute, SubSeq(done, 1, Len(done) - 1), Tail(rest))
              ELSE IF is_absolute
                   THEN normal_names(is_absolute, done, Tail(rest))
                   ELSE normal_names(is_absolute, Append(done, ".."), Tail(rest))
    ELSE normal_names(is_absolute, Append(done, Head(rest)), Tail(rest))

lexically_normal(p) == Path(p.is_absolute, normal_names(p.is_absolute, <<>>, p.names))

\* operator/ : an absolute right operand replaces the left one.
join(lhs, rhs) ==
    IF rhs.is_absolute THEN rhs ELSE Path(lhs.is_absolute, lhs.names \o rhs.names)

parent_path(p) ==
    IF p.names = <<>> THEN p ELSE Path(p.is_absolute, SubSeq(p.names, 1, Len(p.names) - 1))

\* The location the operating system resolves an absolute path to.
location(p) == normal_names(TRUE, <<>>, p.names)

\* The directories fs::create_directories makes sure exist.
create_directories(p) ==
    {location(Path(TRUE, SubSeq(p.names, 1, n))) : n \in 1..Len(p.names)}

zip_entry(filename, is_dir, readable) ==
    [filename |-> filename, is_dir |-> is_dir, readable |-> readable]

MinizipError == Exception("std::runtime_error", "Minizip Error")

\* One turn of the while loop of unzip_archive on the entries left; fs is
\* [dirs, files]: the locations created so far.
RECURSIVE unzip_entries(_, _, _)
unzip_entries(entries, output_dir, fs) ==
    IF entries = <<>> THEN [fs |-> fs, err |-> NoError]
    ELSE LET file_info == Head(entries)
             dest_path == join(output_dir, lexically_normal(fs_path(file_info.filename)))
         IN IF file_info.is_dir
            THEN unzip_entries(Tail(entries), output_dir,
                    [fs EXCEPT !.dirs = @ \cup create_directories(dest_path)])
            ELSE LET opened ==
                         [dirs |-> fs.dirs \cup create_directories(parent_path(dest_path)),
                          files |-> fs.files \cup {location(dest_path)}]
                 IN IF ~file_info.readable
                    THEN [fs |-> opened, err |-> MinizipError]
                    ELSE unzip_entries(Tail(entries), output_dir, opened)

unzip_archive(archive, output_dir) ==
    unzip_entries(archive, output_dir,
                  [dirs |-> create_directories(output_dir), files |-> {}])

(***************************************************************************)
(* Calls of unzip_archive on archives drawn from a bounded set.            *)
(***************************************************************************)
\* TemporaryDirectory: a fresh directory under the system's temporary one.
Workspace == Path(TRUE, <<"tmp", "fourdst_workspace">>)

FileNames ==
    {<<"manifest.yaml">>,
     <<"bin", "/", "plugin.so">>,
     <<"bin", "/", ".", "/", "plugin.so">>,
     <<"..", "/", "escaped">>,
     <<"bin", "/", "..", "/", "..", "/", "escaped">>,
     <<"/", "etc", "/", "escaped">>}

DirNames == {<<"bin", "/">>, <<"..", "/", "escaped_dir", "/">>}

ZipEntries ==
    {zip_entry(f, FALSE, r) : f \in FileNames, r \in BOOLEAN}
        \cup {zip_entry(d, TRUE, TRUE) : d \in DirNames}

ZipArchives == UNION {[1..n -> ZipEntries] : n \in 0..MaxEntries}

InitUnzip ==
    /\ PluginManager
    /\ bundle = NoBundle
    /\ abi = NoAbi
    /\ canon = NoCanon
    /\ threads = NoThreads
    /\ faults = NoFaults
    /\ tmpdir = NoTmpdir
    /\ \E a \in ZipArchives :
         disk = [phase |-> "called", archive |-> a, output_dir |-> Workspace,
                 dirs |-> {}, files |-> {}, err |-> NoError]

Unzip ==
    /\ disk.phase = "called"
    /\ LET r == unzip_archive(disk.archive, disk.output_dir)
       IN disk' = [disk EXCEPT !.phase = "returned", !.dirs = r.fs.dirs,
                               !.files = r.fs.files, !.err = r.err]
    /\ UNCHANGED <<vars, bundle, abi, canon, threads, faults, tmpdir>>

NextUnzip == Unzip

SpecUnzip == InitUnzip /\ [][NextUnzip]_<<vars, others>>

\* loc is dir itself or lies below it.
Within(loc, dir) ==
    Len(loc) >= Len(dir) /\ SubSeq(loc, 1, Len(dir)) = dir

\* The entry's path leaves the output directory: it is absolute, or its
\* ".." components climb above the directory it is relative to.
Escapes(entry, output_dir) ==
    LET p == fs_path(entry.filename)
    IN \/ p.is_absolute
       \/ ~Within(location(join(output_dir, p)), location(output_dir))

\* C14: the extractor creates or writes nothing outside the output
\* directory (beyond the output directory and the directories above it, which
\* it may create), and an archive with an entry whose path escapes the
\* output directory makes extraction fail.
C14_ExtractorStaysInsideOutputDir ==
    disk.phase = "returned" =>
        /\ \A f \in disk.files : Within(f, location(disk.output_dir))
        /\ \A d \in disk.dirs :
             Within(d, location(disk.output_dir)) \/ Within(location(disk.output_dir), d)
        /\ (\E i \in DOMAIN disk.archive : Escapes(disk.archive[i], disk.output_dir))
              => disk.err # NoError

\* An archive whose only entry is "../escaped" has been extracted without
\* an error and the file lies outside the output directory.
C14_Witness ==
    /\ disk.phase = "returned"
    /\ disk.archive = <<zip_entry(<<"..", "/", "escaped">>, FALSE, TRUE)>>
    /\ disk.err = NoError
    /\ <<"tmp", "escaped">> \in disk.files

(***************************************************************************)
(* Plugin bundles (bundle.cpp, class PluginBundle).                        *)
(*                                                                         *)
(* A bundle archive is a record                                            *)
(*   exists        the archive file is on disk                             *)
(*   has_manifest  the archive holds manifest.yaml                         *)
(*   modified      the files whose bytes changed after the bundle was      *)
(*                 signed                                                  *)
(*   manifest      the parsed manifest.yaml                                *)
(* and a manifest is a record                                              *)
(*   metadata         bundleName .. bundledOn are all present              *)
(*   bundleSignature  NoSignature or a signature section                   *)
(*   has_plugins      the bundlePlugins section is present                 *)
(*   bundlePlugins    a sequence of [name, binaries], binaries a sequence  *)
(*                    of [triplet, abi_signature, path]                    *)
(* A binary's path names the library of LibTable the file is.              *)
(***************************************************************************)
MaxBinaries == 3

RuntimeError(what) == Exception("std::runtime_error", what)

BundleNotFound == RuntimeError("Plugin bundle file does not exist")

ManifestMissing == RuntimeError("Manifest file does not exist in the unpacked bundle")

YamlBadConversion == Exception("YAML::Exception", "bad conversion")

EmptySignature == RuntimeError("Bundle signature is empty in the manifest")

BadHex == RuntimeError("Hex string length must be even / Invalid hex character")

MissingFingerprint == RuntimeError("Bundle author key fingerprint is missing")

UntrustedBundle == RuntimeError("Bundle verification failed or bundle is not trusted.")

ManifestMalformed == RuntimeError("Bundle manifest does not contain 'bundlePlugins' section.")

AbiUnparsable == RuntimeError("Failed to parse plugin ABI signature")

AbiIncompatibleAll == RuntimeError("Not all plugins are ABI compatible with the host system.")

AbiIncompatibleAny == RuntimeError("No plugins are ABI compatible with the host system.")

AbiIncompatible == {AbiIncompatibleAll, AbiIncompatibleAny}

ALL_PLUGINS_ABI_COMPATIBLE == "ALL_PLUGINS_ABI_COMPATIBLE"

ANY_PLUGINS_ABI_COMPATIBLE == "ANY_PLUGINS_ABI_COMPATIBLE"

PluginLoadPolicy == {ALL_PLUGINS_ABI_COMPATIBLE, ANY_PLUGINS_ABI_COMPATIBLE}

\* build_host_metadata on the machine of the model: x86_64, linux, glibc 2.35.
m_triplet == "x86_64-linux"

m_hostABISignature ==
    <<"gcc", "-", "libstdc++", "-", "2", ".", "3", "5", "-", "cxx11_abi">>

\* --- signatures and keys ------------------------------------------------
Keys == {"author_key", "stranger_key"}

get_fingerprint(key) ==
    CASE key = "author_key" -> "sha256:author"
      [] key = "stranger_key" -> "sha256:stranger"

\* The bytes a signer produces over data.
Sign(signer, data) == [signer |-> signer, data |-> data]

\* crypt::verify_signature: the bytes are this key's signature of this data.
verify_signature(key, data, signature) ==
    signature.signer = key /\ signature.data = data

\* A hex string of the manifest: its shape and the bytes it encodes.
HexString(shape, bytes) == [shape |-> shape, bytes |-> bytes]

hex_string_to_bytes(hex) ==
    IF hex.shape \in {"odd", "nonhex"}
    THEN [err |-> BadHex, bytes |-> <<>>]
    ELSE [err |-> NoError, bytes |-> hex.bytes]

NoSignature == [present |-> FALSE]

SignatureSection(signature, keyFingerprint) ==
    [present |-> TRUE, signature |-> signature, keyFingerprint |-> keyFingerprint]

\* The host keyring: whether ~/.config/fourdst/keys exists, and its keys.
Keyring(dir_exists, keys) == [dir_exists |-> dir_exists, keys |-> keys]

\* --- the canonical form ---------------------------------------------------
BundlePaths == {"valid_plugin", "other_plugin"}

\* std::map<std::string, std::string> iterates in key order: the paths in
\* the order of std::less<std::string>, which compares them byte by byte.
PathOrder ==
    <<"create_only_plugin", "invalid_library", "no_factory_plugin",
      "non_existent_plugin", "null_factory_plugin", "other_plugin",
      "valid_plugin", "valid_plugin_moved">>

path_less(a, b) ==
    (CHOOSE i \in DOMAIN PathOrder : PathOrder[i] = a)
        < (CHOOSE i \in DOMAIN PathOrder : PathOrder[i] = b)

calculate_sha256(file, modified) ==
    <<"sha256:", file, IF file \in modified THEN "modified" ELSE "as_bundled">>

RECURSIVE flatten(_)
flatten(seqs) == IF seqs = <<>> THEN <<>> ELSE Head(seqs) \o flatten(Tail(seqs))

\* all_files: the binaries of all plugins of the manifest, in manifest
\* order, by their paths.
all_files(manifest) ==
    IF ~manifest.has_plugins THEN <<>>
    ELSE flatten([i \in DOMAIN manifest.bundlePlugins |->
                    [j \in DOMAIN manifest.bundlePlugins[i].binaries |->
                        manifest.bundlePlugins[i].binaries[j].path]])

\* A container that keeps the entries in the order they were first assigned.
RECURSIVE assign_unordered(_, _, _)
assign_unordered(checksum_map, key, value) ==
    IF checksum_map = <<>> THEN <<[first |-> key, second |-> value]>>
    ELSE IF Head(checksum_map).first = key
    THEN <<[first |-> key, second |-> value]>> \o Tail(checksum_map)
    ELSE <<Head(checksum_map)>> \o assign_unordered(Tail(checksum_map), key, value)

\* checksum_map[key] = value on a std::map, kept as the sequence of its
\* entries in iteration order.
RECURSIVE map_assign(_, _, _)
map_assign(checksum_map, key, value) ==
    IF checksum_map = <<>> THEN <<[first |-> key, second |-> value]>>
    ELSE IF Head(checksum_map).first = key
    THEN <<[first |-> key, second |-> value]>> \o Tail(checksum_map)
    ELSE IF path_less(key, Head(checksum_map).first)
    THEN <<[first |-> key, second |-> value]>> \o checksum_map
    ELSE <<Head(checksum_map)>> \o map_assign(Tail(checksum_map), key, value)

\* The second loop of reconstruct_and_verify: the checksum of every file of
\* all_files, or the exception for the first one that is missing.
RECURSIVE checksums(_, _, _)
checksums(files, modified, checksum_map) ==
    IF files = <<>> THEN [err |-> NoError, checksum_map |-> checksum_map]
    ELSE IF ~exists(Head(files))
    THEN [err |-> RuntimeError("File listed in manifest is missing"),
          checksum_map |-> checksum_map]
    ELSE checksums(Tail(files), modified,
                   map_assign(checksum_map, Head(files),
                              calculate_sha256(Head(files), modified)))

\* The third loop: a line-feed before every entry but the first, then
\* "path:sha256:digest".
RECURSIVE canonical_stream(_, _)
canonical_stream(checksum_map, begin) ==
    IF checksum_map = <<>> THEN <<>>
    ELSE (IF begin THEN <<>> ELSE <<"\n">>)
            \o <<Head(checksum_map).first, ":">> \o Head(checksum_map).second
            \o canonical_stream(Tail(checksum_map), FALSE)

\* reconstruct_and_verify once the checksums are taken.
canonical_of(r) ==
    IF r.err # NoError THEN [err |-> r.err, data |-> <<>>]
    ELSE [err |-> NoError, data |-> canonical_stream(r.checksum_map, TRUE)]

reconstruct_and_verify(manifest, modified) ==
    canonical_of(checksums(all_files(manifest), modified, <<>>))

\* --- verify_bundle ----------------------------------------------------------
Verdict(err, signed, trusted) == [err |-> err, signed |-> signed, trusted |-> trusted]

\* The try block of verify_bundle: TRUE when verify_signature is reached
\* and accepts; any exception inside ends in the catch clause.
signature_accepted(manifest, modified, keyring, bytes) ==
    LET section == manifest.bundleSignature
        canonical == reconstruct_and_verify(manifest, modified)
        matching == {i \in DOMAIN keyring.keys :
                        get_fingerprint(keyring.keys[i]) = section.keyFingerprint}
    IN /\ canonical.err = NoError
       /\ keyring.dir_exists
       /\ matching # {}
       /\ LET trusted_key_index == CHOOSE i \in matching : \A j \in matching : j <= i
          IN verify_signature(keyring.keys[trusted_key_index], canonical.data, bytes)

\* The try block again: TRUE when an exception was thrown in it and caught.
signature_check_threw(manifest, modified, keyring) ==
    LET section == manifest.bundleSignature
    IN \/ reconstruct_and_verify(manifest, modified).err # NoError
       \/ ~keyring.dir_exists
       \/ \A i \in DOMAIN keyring.keys :
             get_fingerprint(keyring.keys[i]) # section.keyFingerprint

\* A variant that takes any key of the keyring, whatever its fingerprint.
verify_bundle_any_key(manifest, modified, keyring) ==
    LET section == manifest.bundleSignature
    IN IF ~section.present THEN Verdict(NoError, FALSE, FALSE)
       ELSE IF section.signature.shape = "empty" THEN Verdict(EmptySignature, FALSE, FALSE)
       ELSE IF hex_string_to_bytes(section.signature).err # NoError
            THEN Verdict(BadHex, TRUE, FALSE)
       ELSE IF section.keyFingerprint = NULL THEN Verdict(MissingFingerprint, FALSE, FALSE)
       ELSE IF /\ keyring.dir_exists
               /\ \E i \in DOMAIN keyring.keys :
                    verify_signature(keyring.keys[i],
                                     reconstruct_and_verify(manifest, modified).data,
                                     section.signature.bytes)
            THEN Verdict(NoError, TRUE, TRUE)
            ELSE Verdict(NoError, FALSE, FALSE)

\* A variant that trusts every bundle that names a key of the keyring.
verify_bundle_by_fingerprint(manifest, modified, keyring) ==
    LET section == manifest.bundleSignature
    IN IF ~section.present THEN Verdict(NoError, FALSE, FALSE)
       ELSE IF section.signature.shape = "empty" THEN Verdict(EmptySignature, FALSE, FALSE)
       ELSE IF hex_string_to_bytes(section.signature).err # NoError
            THEN Verdict(BadHex, TRUE, FALSE)
       ELSE IF section.keyFingerprint = NULL THEN Verdict(MissingFingerprint, FALSE, FALSE)
       ELSE IF signature_check_threw(manifest, modified, keyring)
            THEN Verdict(NoError, TRUE, FALSE)
            ELSE Verdict(NoError, TRUE, TRUE)

\* verify_bundle from the point where the signature text has been decoded.
verify_section(manifest, modified, keyring, section, decoded) ==
    IF section.signature.shape = "empty" THEN Verdict(EmptySignature, FALSE, FALSE)
    ELSE IF decoded.err # NoError THEN Verdict(BadHex, TRUE, FALSE)
    ELSE IF section.keyFingerprint = NULL THEN Verdict(MissingFingerprint, FALSE, FALSE)
    ELSE IF signature_check_threw(manifest, modified, keyring)
         THEN Verdict(NoError, TRUE, FALSE)
    ELSE IF signature_accepted(manifest, modified, keyring, decoded.bytes)
         THEN Verdict(NoError, TRUE, TRUE)
         ELSE Verdict(NoError, FALSE, FALSE)

\* The verdict's err is the exception verify_bundle throws, NoError when
\* it returns; it returns m_trusted && m_signed.
verify_bundle(manifest, modified, keyring) ==
    IF ~manifest.bundleSignature.present THEN Verdict(NoError, FALSE, FALSE)
    ELSE verify_section(manifest, modified, keyring, manifest.bundleSignature,
                        hex_string_to_bytes(manifest.bundleSignature.signature))

\* --- parse_manifest ---------------------------------------------------------
\* (the architecture field of PluginPlatforms is stored and never read)
PluginPlatforms(name, triplet, abiSignature, path) ==
    [name |-> name, triplet |-> triplet, abiSignature |-> abiSignature, path |-> path]


\* bundledPlugins: every binary of every plugin, in manifest order.
bundledPlugins(manifest) ==
    flatten([i \in DOMAIN manifest.bundlePlugins |->
                [j \in DOMAIN manifest.bundlePlugins[i].binaries |->
                    LET e == manifest.bundlePlugins[i].binaries[j]
                    IN PluginPlatforms(manifest.bundlePlugins[i].name,
                                       e.triplet, e.abi_signature, e.path)]])

\* One for every plugin that lists a binary, of whatever triplet.
total_plugins_arch_independent(manifest) ==
    Cardinality({i \in DOMAIN manifest.bundlePlugins :
                    manifest.bundlePlugins[i].binaries # <<>>})

for_this_triplet(manifest) ==
    SelectSeq(bundledPlugins(manifest), LAMBDA plugin : plugin.triplet = m_triplet)

goodPlugins(manifest) ==
    LET HostABISignature == parse_abi_signature(m_hostABISignature)
    IN SelectSeq(for_this_triplet(manifest),
                 LAMBDA plugin :
                     is_abi_compatible(HostABISignature,
                                       parse_abi_signature(plugin.abiSignature)))

\* A variant in which ANY_PLUGINS_ABI_COMPATIBLE never fails.
check_policy_any_never_fails(policy, good, total) ==
    IF good # total /\ policy = ALL_PLUGINS_ABI_COMPATIBLE
    THEN AbiIncompatibleAll
    ELSE NoError

\* if (goodPlugins.size() != total_plugins_arch_independent) switch (m_loadPolicy)
check_policy(policy, good, total) ==
    IF good # total
    THEN IF policy = ALL_PLUGINS_ABI_COMPATIBLE THEN AbiIncompatibleAll
         ELSE IF good = 0 THEN AbiIncompatibleAny ELSE NoError
    ELSE NoError

Parsed(err, verdict, names, good) ==
    [err |-> err, signed |-> verdict.signed, trusted |-> verdict.trusted,
     pluginNames |-> names, goodPlugins |-> good]

\* parse_manifest from the policy switch on.
selected_plugins(policy, verdict, good, total) ==
    IF check_policy(policy, Len(good), total) # NoError
    THEN Parsed(check_policy(policy, Len(good), total), verdict, <<>>, <<>>)
    ELSE Parsed(NoError, verdict, [i \in DOMAIN good |-> good[i].name], good)

\* parse_manifest that does not look at what verify_bundle returned.
verified_manifest_unchecked(manifest, policy, verdict, candidates) ==
    IF verdict.err # NoError THEN Parsed(verdict.err, verdict, <<>>, <<>>)
    ELSE IF ~manifest.has_plugins THEN Parsed(ManifestMalformed, verdict, <<>>, <<>>)
    ELSE IF \E i \in DOMAIN candidates :
              ~parse_abi_signature(candidates[i].abiSignature).has_value
         THEN Parsed(AbiUnparsable, verdict, <<>>, <<>>)
    ELSE selected_plugins(policy, verdict, goodPlugins(manifest),
                          total_plugins_arch_independent(manifest))

\* parse_manifest from the return of verify_bundle on.
verified_manifest(manifest, policy, verdict, candidates) ==
    IF verdict.err # NoError THEN Parsed(verdict.err, verdict, <<>>, <<>>)
    ELSE IF ~(verdict.trusted /\ verdict.signed)
         THEN Parsed(UntrustedBundle, verdict, <<>>, <<>>)
    ELSE IF ~manifest.has_plugins THEN Parsed(ManifestMalformed, verdict, <<>>, <<>>)
    ELSE IF ~parse_abi_signature(m_hostABISignature).has_value
         THEN Parsed(RuntimeError("Failed to parse host ABI signature"), verdict, <<>>, <<>>)
    ELSE IF \E i \in DOMAIN candidates :
              ~parse_abi_signature(candidates[i].abiSignature).has_value
         THEN Parsed(AbiUnparsable, verdict, <<>>, <<>>)
    ELSE selected_plugins(policy, verdict, goodPlugins(manifest),
                          total_plugins_arch_independent(manifest))

parse_manifest(manifest, modified, keyring, policy) ==
    IF ~manifest.metadata
    THEN Parsed(YamlBadConversion, Verdict(NoError, FALSE, FALSE), <<>>, <<>>)
    ELSE verified_manifest(manifest, policy, verify_bundle(manifest, modified, keyring),
                           for_this_triplet(manifest))

\* --- PluginBundle::load -----------------------------------------------------
RECURSIVE dispatch_keep_going(_, _, _)
RECURSIVE keep_going_after(_, _, _)
\* A variant that goes on to the next binary after a failed load.
dispatch_keep_going(st, good_plugins, dispatched) ==
    IF good_plugins = <<>> THEN [st |-> st, err |-> NoError, dispatched |-> dispatched]
    ELSE keep_going_after(load(st, Head(good_plugins).path), Tail(good_plugins),
                          dispatched + 1)

keep_going_after(r, rest, dispatched) ==
    IF r.err # NoError
    THEN [dispatch_keep_going(r.st, rest, dispatched) EXCEPT !.err = r.err]
    ELSE dispatch_keep_going(r.st, rest, dispatched)

RECURSIVE dispatch_backwards(_, _, _)
RECURSIVE backwards_after(_, _, _)
\* A variant that loads the binaries from the last one to the first.
dispatch_backwards(st, good_plugins, dispatched) ==
    IF good_plugins = <<>> THEN [st |-> st, err |-> NoError, dispatched |-> dispatched]
    ELSE backwards_after(load(st, good_plugins[Len(good_plugins)].path),
                         SubSeq(good_plugins, 1, Len(good_plugins) - 1),
                         dispatched + 1)

backwards_after(r, rest, dispatched) ==
    IF r.err # NoError
    THEN [st |-> r.st, err |-> r.err, dispatched |-> dispatched]
    ELSE dispatch_backwards(r.st, rest, dispatched)

RECURSIVE dispatch(_, _, _)
RECURSIVE dispatch_after(_, _, _)
\* for (const auto& plugin: plugins) m_pluginManager.load(workspace / plugin.path);
\* dispatched counts the calls of m_pluginManager.load.
dispatch(st, good_plugins, dispatched) ==
    IF good_plugins = <<>> THEN [st |-> st, err |-> NoError, dispatched |-> dispatched]
    ELSE dispatch_after(load(st, Head(good_plugins).path), Tail(good_plugins),
                        dispatched + 1)

\* The loop after m_pluginManager.load returned r: an exception leaves it.
dispatch_after(r, rest, dispatched) ==
    IF r.err # NoError
    THEN [st |-> r.st, err |-> r.err, dispatched |-> dispatched]
    ELSE dispatch(r.st, rest, dispatched)

\* --- the constructor --------------------------------------------------------
\* TemporaryDirectory::TemporaryDirectory: create_directory(directoryPath).
TemporaryDirectory == "present"

\* A cleanup that leaves the directory where it is.
cleanup_keeps(directory) == directory

\* TemporaryDirectory::cleanup: remove_all of a directory that exists.
cleanup(directory) == IF directory = "present" THEN "removed" ELSE directory

\* The members are initialised before the constructor's body runs, and
\* m_temporaryDirectory has a default constructor: the workspace is made
\* first, then come the statements of the body.
ConstructorSteps ==
    <<"TemporaryDirectory", "exists", "unpackBundle", "manifest_exists",
      "parse_manifest", "load">>

\* The steps the constructor has taken when it leaves at step last.
steps_until(last) ==
    SubSeq(ConstructorSteps, 1,
           CHOOSE i \in DOMAIN ConstructorSteps : ConstructorSteps[i] = last)

\* An exception leaving the constructor destroys m_temporaryDirectory, which
\* removes the workspace.
Constructed(phase, err, parsed, dispatched, last) ==
    [phase |-> phase, err |-> err,
     m_signed |-> parsed.signed, m_trusted |-> parsed.trusted,
     m_pluginNames |-> parsed.pluginNames, good_plugins |-> parsed.goodPlugins,
     dispatched |-> dispatched,
     steps |-> steps_until(last),
     workspace |-> IF err = NoError THEN TemporaryDirectory
                   ELSE cleanup(TemporaryDirectory)]

NotParsed == Parsed(NoError, Verdict(NoError, FALSE, FALSE), <<>>, <<>>)

\* The constructor after load(good_plugins) returned or threw.
loaded_bundle(parsed, r) ==
    [st |-> r.st,
     bundle |-> Constructed(IF r.err = NoError THEN "constructed" ELSE "thrown",
                            r.err, parsed, r.dispatched, "load")]

\* The constructor after parse_manifest returned or threw.
parsed_bundle(st, parsed) ==
    IF parsed.err # NoError
    THEN [st |-> st,
          bundle |-> Constructed("thrown", parsed.err, parsed, 0, "parse_manifest")]
    ELSE loaded_bundle(parsed, dispatch(st, parsed.goodPlugins, 0))

PluginBundle(st, archive, policy, keyring) ==
    IF ~archive.exists
    THEN [st |-> st,
          bundle |-> Constructed("thrown", BundleNotFound, NotParsed, 0, "exists")]
    ELSE IF ~archive.has_manifest
    THEN [st |-> st,
          bundle |-> Constructed("thrown", ManifestMissing, NotParsed, 0,
                                 "manifest_exists")]
    ELSE parsed_bundle(st, parse_manifest(archive.manifest, archive.modified,
                                          keyring, policy))

\* ~PluginBundle() = default: the members are destroyed, m_temporaryDirectory
\* among them; m_pluginManager is a reference to the singleton, which stays.
destroy_bundle(b) ==
    [b EXCEPT !.phase = "destroyed", !.workspace = cleanup(b.workspace)]

(***************************************************************************)
(* Constructions of a PluginBundle on archives drawn from bounded sets.    *)
(***************************************************************************)
ManifestNames == {"ValidPlugin", "OtherPlugin"}

OlderAbi == <<"gcc", "-", "libstdc++", "-", "2", ".", "3", "1", "-", "cxx11_abi">>

NewerAbi == <<"gcc", "-", "libstdc++", "-", "2", ".", "3", "9", "-", "cxx11_abi">>

ForeignAbi == <<"clang", "-", "libc++", "-", "1", "4", ".", "0", "-", "libc++_abi">>

Platform(triplet, abi_signature) == [triplet |-> triplet, abi_signature |-> abi_signature]

Platforms ==
    {Platform(m_triplet, OlderAbi), Platform(m_triplet, NewerAbi),
     Platform("arm64-macos", ForeignAbi)}

\* One binary of the manifest together with the plugin it is listed under.
Listings ==
    [name : ManifestNames, platform : Platforms, path : BundlePaths]

ListingSeqs(n) == UNION {[1..k -> Listings] : k \in 0..n}

RECURSIVE first_appearances(_, _)
first_appearances(names, seen) ==
    IF names = <<>> THEN <<>>
    ELSE IF Head(names) \in seen THEN first_appearances(Tail(names), seen)
    ELSE <<Head(names)>> \o first_appearances(Tail(names), seen \cup {Head(names)})

\* The bundlePlugins section that lists these binaries: one plugin a name,
\* plugins and binaries in the order given.
BundlePlugins(listings) ==
    LET names == first_appearances([i \in DOMAIN listings |-> listings[i].name], {})
        of(name) == SelectSeq(listings, LAMBDA l : l.name = name)
    IN [i \in DOMAIN names |->
          [name |-> names[i],
           binaries |-> [j \in DOMAIN of(names[i]) |->
                           [triplet |-> of(names[i])[j].platform.triplet,
                            abi_signature |-> of(names[i])[j].platform.abi_signature,
                            path |-> of(names[i])[j].path]]]]

Manifest(metadata, bundleSignature, has_plugins, listed) ==
    [metadata |-> metadata, bundleSignature |-> bundleSignature,
     has_plugins |-> has_plugins, bundlePlugins |-> listed]

Archive(file_exists, has_manifest, modified, manifest) ==
    [exists |-> file_exists, has_manifest |-> has_manifest, modified |-> modified,
     manifest |-> manifest]

\* What the bundler signs: the canonical form of the files as bundled.
AsBundled(listed) ==
    reconstruct_and_verify(Manifest(TRUE, NoSignature, TRUE, listed), {}).data

AuthorSignature(listed) ==
    SignatureSection(HexString("hex", Sign("author_key", AsBundled(listed))),
                     get_fingerprint("author_key"))

SignatureSections(listed) ==
    {NoSignature} \cup
    {SignatureSection(HexString(shape, Sign(signer, AsBundled(listed))), fingerprint) :
        shape \in {"empty", "odd", "nonhex", "hex"},
        signer \in Keys,
        fingerprint \in {NULL} \cup {get_fingerprint(k) : k \in Keys}}

AuthorKeyring == Keyring(TRUE, <<"author_key">>)

Keyrings == {Keyring(FALSE, <<>>), Keyring(TRUE, <<>>), AuthorKeyring}

Given(archive, policy, keyring) ==
    [phase |-> "given", archive |-> archive, policy |-> policy, keyring |-> keyring]

\* A bundle signed by the author and left as bundled.
SignedBundle(listed, policy) ==
    Given(Archive(TRUE, TRUE, {},
                  Manifest(TRUE, AuthorSignature(listed), TRUE, listed)),
          policy, AuthorKeyring)

\* The four parts a bundle can lack: the archive, the manifest, the
\* metadata keys, the bundlePlugins section.
MissingParts ==
    {<<FALSE, TRUE, TRUE, TRUE>>, <<TRUE, FALSE, TRUE, TRUE>>,
     <<TRUE, TRUE, FALSE, TRUE>>, <<TRUE, TRUE, TRUE, FALSE>>}

MaxMalformed == 2

\* An abi_signature of three fields.
ThreeFieldAbi == <<"gcc", "-", "libstdc++", "-", "cxx11_abi">>

\* An abi_signature whose version ends in a letter.
LetterVersionAbi ==
    <<"gcc", "-", "libstdc++", "-", "2", ".", "3", "x", "-", "cxx11_abi">>

\* Binaries with such signatures, for the host triplet and for another,
\* and a binary the host accepts.
MalformedListings ==
    [name : ManifestNames,
     platform : {Platform(m_triplet, OlderAbi), Platform(m_triplet, ThreeFieldAbi),
                 Platform(m_triplet, LetterVersionAbi),
                 Platform("arm64-macos", ThreeFieldAbi)},
     path : {"valid_plugin"}]

\* The bundles constructed: bundles signed by the author with up to
\* MaxBinaries binaries; bundles of at most one binary with every signature
\* section, keyring and later modification; bundles with a part missing;
\* signed bundles of up to MaxMalformed binaries with malformed signatures.
InitBundle ==
    /\ PluginManager
    /\ abi = NoAbi
    /\ disk = NoDisk
    /\ canon = NoCanon
    /\ threads = NoThreads
    /\ faults = NoFaults
    /\ tmpdir = NoTmpdir
    /\ \/ \E l \in ListingSeqs(MaxBinaries), policy \in PluginLoadPolicy :
            bundle = SignedBundle(BundlePlugins(l), policy)
       \/ \E l \in ListingSeqs(1), policy \in PluginLoadPolicy, keyring \in Keyrings,
             modified \in {{}, {"valid_plugin"}} :
            \E section \in SignatureSections(BundlePlugins(l)) :
               bundle = Given(Archive(TRUE, TRUE, modified,
                                      Manifest(TRUE, section, TRUE, BundlePlugins(l))),
                              policy, keyring)
       \/ \E parts \in MissingParts, policy \in PluginLoadPolicy,
             section \in {NoSignature, AuthorSignature(<<>>)} :
            bundle = Given(Archive(parts[1], parts[2], {},
                                   Manifest(parts[3], section, parts[4], <<>>)),
                           policy, AuthorKeyring)
       \/ \E k \in 1..MaxMalformed, policy \in PluginLoadPolicy :
            \E l \in [1..k -> MalformedListings] :
               bundle = SignedBundle(BundlePlugins(l), policy)

\* The registry and the bundle after the constructor gave r.
Constructs(r) ==
    /\ Becomes(r.st)
    /\ bundle' = r.bundle @@ bundle
    /\ call' = Call("PluginBundle", "", "", r.bundle.err, nullptr, FALSE)

Construct ==
    /\ alive
    /\ bundle.phase = "given"
    /\ Constructs(PluginBundle(Fresh(State), bundle.archive, bundle.policy, bundle.keyring))
    /\ UNCHANGED <<alive, abi, disk, canon, threads, faults, tmpdir>>

\* The bundle object goes out of scope.
DestroyBundle ==
    /\ alive
    /\ bundle.phase = "constructed"
    /\ bundle' = destroy_bundle(bundle)
    /\ call' = Call("~PluginBundle", "", "", NoError, nullptr, FALSE)
    /\ UNCHANGED <<plugins, refcnt, instances, events, alive, abi, disk, canon,
                   threads, faults, tmpdir>>

NextBundle == Construct \/ DestroyBundle

SpecBundle == InitBundle /\ [][NextBundle]_<<vars, others>>

(***************************************************************************)
(* Claims about bundle construction.                                       *)
(***************************************************************************)
\* The constructor has returned or thrown.
Finished == bundle.phase \in {"constructed", "thrown"}

\* The archive and its manifest are there and the manifest has its
\* bundle-level fields: the constructor gets as far as verification.
ReachesVerification ==
    /\ bundle.archive.exists
    /\ bundle.archive.has_manifest
    /\ bundle.archive.manifest.metadata

Section == bundle.archive.manifest.bundleSignature

\* The signature section holds a hex signature and a fingerprint.
WellFormedSection ==
    /\ Section.present
    /\ Section.signature.shape = "hex"
    /\ Section.keyFingerprint # NULL

HostKeys ==
    IF bundle.keyring.dir_exists
    THEN {bundle.keyring.keys[i] : i \in DOMAIN bundle.keyring.keys}
    ELSE {}

\* Some key of the host keyring has the declared fingerprint and the
\* signature is that key's signature of the canonical form of the files in
\* the workspace.
SignatureVerifies ==
    /\ WellFormedSection
    /\ \E k \in HostKeys :
         /\ get_fingerprint(k) = Section.keyFingerprint
         /\ verify_signature(k,
                reconstruct_and_verify(bundle.archive.manifest, bundle.archive.modified).data,
                Section.signature.bytes)

AllBinariesCompatible ==
    LET listed == bundledPlugins(bundle.archive.manifest)
    IN /\ bundle.archive.manifest.has_plugins
       /\ listed # <<>>
       /\ \A i \in DOMAIN listed :
            /\ listed[i].triplet = m_triplet
            /\ listed[i].abiSignature = OlderAbi
            /\ \A j \in DOMAIN listed : listed[i].path = listed[j].path => i = j

\* C12: a bundle without a bundleSignature section that is otherwise valid
\* is constructed, and signed() and trusted() are both false.
C12_UnsignedBundleIsConstructed ==
    (Finished /\ ReachesVerification /\ ~Section.present /\ AllBinariesCompatible)
        => /\ bundle.phase = "constructed"
           /\ ~bundle.m_signed
           /\ ~bundle.m_trusted

\* An unsigned bundle with one compatible binary was refused as untrusted.
C12_Witness ==
    /\ bundle.phase = "thrown"
    /\ bundle.err = UntrustedBundle
    /\ ReachesVerification
    /\ ~Section.present
    /\ AllBinariesCompatible
    /\ plugins = <<>>

\* C13: after a construction that succeeds, trusted() is true exactly when
\* the manifest carries a signature that verifies over the canonical form
\* against a keyring key with the declared fingerprint; and m_trusted is
\* never true, on any path, without such a signature.
C13_TrustedIffSignatureVerifies ==
    /\ bundle.phase = "constructed" => (bundle.m_trusted <=> SignatureVerifies)
    /\ (Finished /\ bundle.m_trusted) => SignatureVerifies

C13_Witness ==
    /\ bundle.phase = "constructed"
    /\ bundle.m_trusted
    /\ SignatureVerifies
    /\ bundle.dispatched >= 1

\* The constructor gets as far as variant selection: the signature
\* verifies and the manifest has its bundlePlugins section.
ReachesSelection ==
    /\ ReachesVerification
    /\ SignatureVerifies
    /\ bundle.archive.manifest.has_plugins

\* Every binary of the manifest, with the name of its plugin.
Listed == bundledPlugins(bundle.archive.manifest)

HostCompatible(abiSignature) ==
    is_abi_compatible(parse_abi_signature(m_hostABISignature),
                      parse_abi_signature(abiSignature))

\* T: the plugin names with at least one binary for the host triplet.
NamesForTriplet ==
    {Listed[i].name : i \in {j \in DOMAIN Listed : Listed[j].triplet = m_triplet}}

\* C: the plugin names with at least one accepted binary.
NamesAccepted ==
    {Listed[i].name : i \in {j \in DOMAIN Listed :
                                /\ Listed[j].triplet = m_triplet
                                /\ HostCompatible(Listed[j].abiSignature)}}

SelectionPassed == bundle.err \notin AbiIncompatible

SelectionFailed ==
    /\ bundle.phase = "thrown"
    /\ bundle.err \in AbiIncompatible
    /\ bundle.dispatched = 0
    /\ plugins = <<>>

\* C15: under ALL_PLUGINS_ABI_COMPATIBLE variant selection passes exactly
\* when C = T; otherwise construction fails with AbiIncompatible and nothing
\* is loaded.
C15_AllPolicyPassesIffEveryTripletPluginAccepted ==
    (Finished /\ ReachesSelection /\ bundle.policy = ALL_PLUGINS_ABI_COMPATIBLE)
        => IF NamesAccepted = NamesForTriplet THEN SelectionPassed ELSE SelectionFailed

\* One plugin with two compatible binaries for the host: C = T, and the
\* constructor has thrown "Not all plugins are ABI compatible".
C15_Witness ==
    /\ bundle.phase = "thrown"
    /\ bundle.policy = ALL_PLUGINS_ABI_COMPATIBLE
    /\ ReachesSelection
    /\ Len(Listed) = 2
    /\ \A i \in DOMAIN Listed :
         /\ Listed[i].name = "ValidPlugin"
         /\ Listed[i].triplet = m_triplet
         /\ HostCompatible(Listed[i].abiSignature)
    /\ NamesAccepted = NamesForTriplet
    /\ bundle.err = AbiIncompatibleAll

\* C16: under ANY_PLUGINS_ABI_COMPATIBLE variant selection passes exactly
\* when some plugin has an accepted binary; otherwise construction fails
\* with AbiIncompatible; and a bundle that is constructed has loaded exactly
\* the plugins of C, one binary each.
C16_AnyPolicyPassesIffSomePluginAccepted ==
    (Finished /\ ReachesSelection /\ bundle.policy = ANY_PLUGINS_ABI_COMPATIBLE)
        => /\ IF NamesAccepted # {} THEN SelectionPassed ELSE SelectionFailed
           /\ bundle.phase = "constructed" =>
                /\ {bundle.m_pluginNames[i] : i \in DOMAIN bundle.m_pluginNames}
                      = NamesAccepted
                /\ bundle.dispatched = Cardinality(NamesAccepted)

\* A manifest whose bundlePlugins section is empty was constructed under
\* ANY_PLUGINS_ABI_COMPATIBLE with no plugin accepted.
C16_Witness ==
    /\ bundle.phase = "constructed"
    /\ bundle.policy = ANY_PLUGINS_ABI_COMPATIBLE
    /\ ReachesSelection
    /\ NamesAccepted = {}
    /\ bundle.m_pluginNames = <<>>

\* C17 as stated: if every binary the manifest lists has a triplet other
\* than the host's, construction fails with AbiIncompatible under both
\* policies and no plugin is loaded.
C17_EveryTripletMismatchedFails ==
    (/\ Finished
     /\ ReachesSelection
     /\ \A i \in DOMAIN Listed : Listed[i].triplet # m_triplet)
        => SelectionFailed

\* C17, amended: if the manifest lists at least one binary and every
\* listed binary has a triplet other than the host's, construction fails
\* with AbiIncompatible under both policies and no plugin is loaded.
C17_SomeBinaryAndEveryTripletMismatchedFails ==
    (/\ Finished
     /\ ReachesSelection
     /\ Listed # <<>>
     /\ \A i \in DOMAIN Listed : Listed[i].triplet # m_triplet)
        => SelectionFailed

C17_Witness ==
    /\ bundle.phase = "thrown"
    /\ bundle.policy = ANY_PLUGINS_ABI_COMPATIBLE
    /\ ReachesSelection
    /\ Len(Listed) = 2
    /\ \A i \in DOMAIN Listed : Listed[i].triplet # m_triplet
    /\ bundle.err = AbiIncompatibleAny
    /\ plugins = <<>>

\* C19: after a successful construction every name of getPluginNames() is
\* registered, and get by that name gives the instance made by the binary
\* the bundle dispatched for it.
C19_PluginNamesAreRegistered ==
    bundle.phase = "constructed" =>
        \A i \in DOMAIN bundle.m_pluginNames :
            /\ has(State, bundle.m_pluginNames[i])
            /\ get_raw(State, bundle.m_pluginNames[i]) # nullptr
            /\ instances[get_raw(State, bundle.m_pluginNames[i])].lib
                  = bundle.good_plugins[i].path

\* The manifest lists the library that reports "ValidPlugin" under the
\* name "OtherPlugin": the bundle is constructed, getPluginNames() is
\* <<"OtherPlugin">>, and the registry holds only "ValidPlugin".
C19_Witness ==
    /\ bundle.phase = "constructed"
    /\ bundle.m_pluginNames = <<"OtherPlugin">>
    /\ bundle.good_plugins[1].path = "valid_plugin"
    /\ ~has(State, "OtherPlugin")
    /\ has(State, "ValidPlugin")

\* The names the libraries of the first n dispatched binaries report.
NamesOfFirst(n) ==
    {ReportedName(bundle.good_plugins[j].path) : j \in 1..n}

\* The i-th registry load of the dispatch fails.
DispatchFailsAt(i) ==
    ExpectedLoadError(bundle.good_plugins[i].path, NamesOfFirst(i - 1)) # NoError

\* C20: when a registry load fails during the dispatch of the selected
\* binaries, the constructor throws the registry's error as it is, no later
\* binary is loaded, and the plugins loaded before the failure stay
\* registered.
C20_RegistryFailurePropagates ==
    (Finished /\ ReachesSelection /\ SelectionPassed /\ bundle.err # AbiUnparsable)
        => LET failing == {i \in DOMAIN bundle.good_plugins : DispatchFailsAt(i)}
           IN IF failing = {}
              THEN /\ bundle.phase = "constructed"
                   /\ bundle.dispatched = Len(bundle.good_plugins)
              ELSE LET k == CHOOSE i \in failing : \A j \in failing : i <= j
                   IN /\ bundle.phase = "thrown"
                      /\ bundle.err = ExpectedLoadError(bundle.good_plugins[k].path,
                                                        NamesOfFirst(k - 1))
                      /\ call.err = bundle.err
                      /\ bundle.dispatched = k
                      /\ Cardinality({e \in DOMAIN events : events[e].ev = "dlopen"}) = k
                      /\ Registered = NamesOfFirst(k - 1)
                      /\ \A n \in Registered :
                            instances[plugins[n].instance.ptr].destroyed = 0

\* Three binaries selected; the second load failed with a name collision;
\* the first plugin is registered and the third library was never opened.
C20_Witness ==
    /\ bundle.phase = "thrown"
    /\ bundle.err = NameCollision
    /\ Len(bundle.good_plugins) = 3
    /\ bundle.dispatched = 2
    /\ bundle.good_plugins[3].path = "other_plugin"
    /\ Registered = {"ValidPlugin"}
    /\ refcnt["other_plugin"] = 0

(***************************************************************************)
(* Claims about the workspace of a bundle.                                 *)
(***************************************************************************)
\* The constructor has run: it returned, threw, or the bundle it made has
\* since been destroyed.
Ran == bundle.phase \in {"constructed", "thrown", "destroyed"}

\* C21: in every reachable state, while a plugin loaded from the bundle is
\* registered in the registry, the workspace of the bundle exists; this for
\* constructions that complete and for constructions that fail after some
\* of their plugins were loaded.
C21_WorkspaceOutlivesRegisteredPlugins ==
    (Ran /\ Registered # {}) => bundle.workspace = "present"

\* A construction failed at its second registry load: the first plugin is
\* registered.
C21_Witness ==
    /\ bundle.phase = "thrown"
    /\ bundle.dispatched = 2
    /\ Registered # {}

step_index(step) ==
    IF \E i \in DOMAIN bundle.steps : bundle.steps[i] = step
    THEN CHOOSE i \in DOMAIN bundle.steps : bundle.steps[i] = step
    ELSE 0

\* C27: the existence of the archive path is verified before a workspace is
\* acquired, so a construction that fails with BundleNotFound never makes a
\* workspace directory; and an archive with no entries fails with
\* ManifestMissing.
C27_ExistenceCheckedBeforeWorkspace ==
    Ran =>
      /\ step_index("TemporaryDirectory") > 0 =>
            step_index("exists") \in 1..(step_index("TemporaryDirectory") - 1)
      /\ bundle.err = BundleNotFound => step_index("TemporaryDirectory") = 0
      /\ (bundle.archive.exists /\ ~bundle.archive.has_manifest) =>
            bundle.err = ManifestMissing

\* A construction on a path where no archive is has failed.
C27_Witness ==
    /\ bundle.phase = "thrown"
    /\ ~bundle.archive.exists
    /\ bundle.err = BundleNotFound
    /\ step_index("TemporaryDirectory") > 0

(***************************************************************************)
(* Claims about malformed manifests and failed verifications.              *)
(***************************************************************************)
\* The manifest is there with its bundle-level fields and has no
\* bundlePlugins key.
NoBundlePlugins == ReachesVerification /\ ~bundle.archive.manifest.has_plugins

\* C26: construction on an archive whose manifest has no bundlePlugins key
\* fails with ManifestMalformed, with a signature section and without one,
\* and loads no plugin.
C26_NoBundlePluginsIsManifestMalformed ==
    (Ran /\ NoBundlePlugins) =>
        /\ bundle.err = ManifestMalformed
        /\ bundle.dispatched = 0
        /\ Registered = {}

\* A construction on an unsigned manifest without bundlePlugins has failed.
C26_Witness ==
    /\ bundle.phase = "thrown"
    /\ NoBundlePlugins
    /\ ~Section.present

\* The exception raised inside the try block of verify_bundle.
RaisedInVerification ==
    IF reconstruct_and_verify(bundle.archive.manifest, bundle.archive.modified).err
          # NoError
    THEN reconstruct_and_verify(bundle.archive.manifest, bundle.archive.modified).err
    ELSE IF ~bundle.keyring.dir_exists
    THEN RuntimeError("Trusted keys directory does not exist or no trusted keys found.")
    ELSE RuntimeError("No trusted key found matching the bundle author fingerprint")

\* Verification of a well-formed signature section raised an exception.
VerificationRaised ==
    /\ ReachesVerification
    /\ WellFormedSection
    /\ signature_check_threw(bundle.archive.manifest, bundle.archive.modified,
                             bundle.keyring)

\* C28: if an exception is raised during signature verification (a file is
\* missing, the keyring directory is missing, no key has the fingerprint),
\* the bundle is left with trusted = false and signed = false and the
\* exception is reported to the caller of the construction.
C28_VerificationExceptionIsReported ==
    (Ran /\ VerificationRaised) =>
        /\ ~bundle.m_trusted
        /\ ~bundle.m_signed
        /\ bundle.phase = "thrown"
        /\ bundle.err = RaisedInVerification

\* A construction whose verification found no keyring directory has ended.
C28_Witness ==
    /\ Ran
    /\ VerificationRaised
    /\ ~bundle.keyring.dir_exists

(***************************************************************************)
(* Claims about the binaries dispatched to the registry.                   *)
(***************************************************************************)
\* The binary at this place of the manifest has the host triplet and passes
\* the ABI check.
Accepted(j) ==
    /\ Listed[j].triplet = m_triplet
    /\ HostCompatible(Listed[j].abiSignature)

AcceptedOf(name) == {j \in DOMAIN Listed : Listed[j].name = name /\ Accepted(j)}

\* The plugins with two or more accepted binaries.
DuplicatedNames == {name \in NamesAccepted : Cardinality(AcceptedOf(name)) >= 2}

\* The first accepted binary of a plugin, in manifest order.
FirstAccepted(name) == CHOOSE j \in AcceptedOf(name) : \A k \in AcceptedOf(name) : j <= k

\* Every plugin with a binary for the host triplet has an accepted one, and
\* the first accepted binaries of the plugins report different names: the
\* selection passes under both policies and the loads of those binaries
\* succeed.
FirstChoicesLoad ==
    /\ NamesAccepted = NamesForTriplet
    /\ \A m, n \in NamesAccepted :
          m # n => ReportedName(Listed[FirstAccepted(m)].path)
                      # ReportedName(Listed[FirstAccepted(n)].path)

\* The places among the dispatched binaries that belong to this plugin.
DispatchedOf(name) ==
    {i \in 1..bundle.dispatched : bundle.good_plugins[i].name = name}

\* C29: when two or more binaries of one plugin have the host triplet and
\* pass the ABI check, the bundle load dispatches exactly one of them, the
\* first in manifest order; construction succeeds and the plugin names list
\* that plugin once.
C29_OneBinaryPerPluginIsDispatched ==
    (Ran /\ ReachesSelection /\ DuplicatedNames # {} /\ FirstChoicesLoad) =>
        /\ bundle.err = NoError
        /\ \A name \in DuplicatedNames :
              /\ Cardinality(DispatchedOf(name)) = 1
              /\ \A i \in DispatchedOf(name) :
                    bundle.good_plugins[i].path = Listed[FirstAccepted(name)].path
              /\ Cardinality({i \in DOMAIN bundle.m_pluginNames :
                                 bundle.m_pluginNames[i] = name}) = 1

\* A bundle with two accepted binaries of one plugin was constructed: both
\* were dispatched and the plugin is listed twice.
C29_Witness ==
    /\ bundle.phase = "constructed"
    /\ DuplicatedNames = {"ValidPlugin"}
    /\ bundle.dispatched = 2
    /\ bundle.m_pluginNames = <<"ValidPlugin", "ValidPlugin">>

\* The calls of dlopen the registry made, in the order it made them.
Opens == SelectSeq(events, LAMBDA e : e.ev = "dlopen")

\* The index in events of the i-th call of dlopen.
RECURSIVE open_index(_, _)
open_index(i, from) ==
    IF events[from].ev = "dlopen"
    THEN IF i = 1 THEN from ELSE open_index(i - 1, from + 1)
    ELSE open_index(i, from + 1)

\* C30: within one bundle load the registry loads are issued one at a time
\* in the order variant selection produced the accepted binaries, which is
\* manifest order, each completing before the next starts.
C30_LoadsIssuedInSelectionOrder ==
    (Ran /\ bundle.dispatched > 0) =>
        /\ bundle.good_plugins
              = SelectSeq(Listed, LAMBDA plugin :
                             /\ plugin.triplet = m_triplet
                             /\ HostCompatible(plugin.abiSignature))
        /\ Len(Opens) = bundle.dispatched
        /\ \A i \in 1..bundle.dispatched :
              /\ Opens[i].lib = bundle.good_plugins[i].path
              /\ \A e \in open_index(i, 1)..
                          (IF i = bundle.dispatched THEN Len(events)
                           ELSE open_index(i + 1, 1) - 1) :
                    events[e].lib = bundle.good_plugins[i].path

\* Three binaries of different libraries were dispatched in turn.
C30_Witness ==
    /\ bundle.phase \in {"constructed", "thrown"}
    /\ bundle.dispatched >= 2
    /\ bundle.good_plugins[1].path # bundle.good_plugins[2].path

(***************************************************************************)
(* Claims about the lookups of the registry.                               *)
(***************************************************************************)
\* The registry after the step.
StateAfter == [plugins |-> plugins', refcnt |-> refcnt', instances |-> instances',
               events |-> events']

\* The step is a call of get<T> or of has.
Lookup == call'.op \in {"get", "has"}

MaxFiles == 3

MaxComputations == 2

\* Files of the unpacked bundle, and one the manifest lists that is not
\* there.
CanonicalPaths ==
    {"non_existent_plugin", "other_plugin", "valid_plugin", "valid_plugin_moved"}

CanonicalListings ==
    [name : ManifestNames, platform : {Platform(m_triplet, OlderAbi)},
     path : CanonicalPaths]

UnsignedManifest(has_plugins, listings) ==
    Manifest(TRUE, NoSignature, has_plugins, BundlePlugins(listings))

InitCanonical ==
    /\ PluginManager
    /\ bundle = NoBundle
    /\ abi = NoAbi
    /\ disk = NoDisk
    /\ threads = NoThreads
    /\ faults = NoFaults
    /\ tmpdir = NoTmpdir
    /\ \E k \in 0..MaxFiles, has_plugins \in BOOLEAN,
          modified \in {{}, {"valid_plugin"}} :
          \E listings \in [1..k -> CanonicalListings] :
             /\ has_plugins \/ listings = <<>>
             /\ canon = [phase |-> "given", listings |-> listings,
                         manifest |-> UnsignedManifest(has_plugins, listings),
                         modified |-> modified, results |-> <<>>]

\* reconstruct_and_verify is called on the unpacked bundle once more.
Reconstruct ==
    /\ canon.phase = "given"
    /\ Len(canon.results) < MaxComputations
    /\ canon' = [canon EXCEPT !.results =
                    Append(@, reconstruct_and_verify(canon.manifest, canon.modified))]
    /\ UNCHANGED <<vars, bundle, abi, disk, threads, faults, tmpdir>>

NextCanonical == Reconstruct

SpecCanonical == InitCanonical /\ [][NextCanonical]_<<vars, others>>

\* The files the manifest refers to.
FilesOf(listings) == {listings[i].path : i \in DOMAIN listings}

\* The files the manifest refers to, by path ascending.
SortedFiles(listings) == SelectSeq(PathOrder, LAMBDA p : p \in FilesOf(listings))

\* "<relative-path>:sha256:<hexdigest>"
LineOf(p, modified) ==
    <<p, ":", "sha256:", p, IF p \in modified THEN "modified" ELSE "as_bundled">>

LineLen == Len(LineOf("valid_plugin", {}))

\* data is the lines of the files of sorted, in that order, with one
\* line-feed between two lines and none after the last.
IsCanonical(data, sorted, modified) ==
    /\ Len(data) = IF sorted = <<>> THEN 0 ELSE Len(sorted) * (LineLen + 1) - 1
    /\ \A k \in DOMAIN sorted :
          SubSeq(data, (k - 1) * (LineLen + 1) + 1, (k - 1) * (LineLen + 1) + LineLen)
              = LineOf(sorted[k], modified)
    /\ \A k \in 1..(Len(sorted) - 1) : data[k * (LineLen + 1)] = "\n"

\* The same binaries under the same plugins, listed in every order.
Reorderings(listings) ==
    {[i \in DOMAIN listings |-> listings[f[i]]] : f \in Permutations(DOMAIN listings)}

\* C23: the canonical signed form has one line
\* "<relative-path>:sha256:<hexdigest>" for every file the manifest refers
\* to, the lines sorted by path ascending and joined by one line-feed with
\* none at the end; computing it twice on the same unpacked bundle gives
\* the same bytes, and the result does not depend on the order of the
\* plugins and binaries in the manifest.
C23_CanonicalFormIsSortedAndOrderIndependent ==
    canon.phase = "given" =>
        \A k \in DOMAIN canon.results :
            /\ canon.results[k] = canon.results[1]
            /\ canon.results[k].err = NoError
                  <=> \A p \in FilesOf(canon.listings) : exists(p)
            /\ canon.results[k].err = NoError =>
                  /\ IsCanonical(canon.results[k].data, SortedFiles(canon.listings),
                                 canon.modified)
                  /\ \A reordered \in Reorderings(canon.listings) :
                        reconstruct_and_verify(UnsignedManifest(TRUE, reordered),
                                               canon.modified)
                            = canon.results[k]

\* The form was computed twice for a manifest that lists three files
\* in descending order of their paths.
C23_Witness ==
    /\ canon.phase = "given"
    /\ Len(canon.results) = 2
    /\ canon.results[2].err = NoError
    /\ Len(canon.listings) = 3
    /\ path_less(canon.listings[3].path, canon.listings[2].path)
    /\ path_less(canon.listings[2].path, canon.listings[1].path)

(***************************************************************************)
(* Threads in the member functions of the singleton at the same time.      *)
(* plugin_manager.cpp takes no lock: a member function is the sequence of  *)
(* its accesses to pimpl->plugins, and the accesses of different threads   *)
(* interleave.  An access through an iterator or a pointer whose target    *)
(* another thread has freed is undefined: it finds what the memory held    *)
(* when it was freed, or the thread faults.                                *)
(*   threads.start    the registry when the threads were started           *)
(*   threads.running  thread -> its call, its position in it, its locals   *)
(***************************************************************************)
MaxThreads == 2

ThreadCalls ==
    {[op |-> "load", arg |-> "valid_plugin"],
     [op |-> "load", arg |-> "valid_plugin_moved"],
     [op |-> "unload", arg |-> "ValidPlugin"],
     [op |-> "get", arg |-> "ValidPlugin"]}

\* The thread faulted on freed memory.
Undefined == Exception("undefined behaviour", "use of freed memory")

Thread(c) ==
    [op |-> c.op, arg |-> c.arg, pc |-> "start", err |-> NoError,
     handle |-> NULL, raw_instance |-> nullptr, plugin_name |-> "",
     node |-> PluginHandle(nullptr, NULL, NULL), plugin |-> nullptr,
     ret |-> nullptr]

Returned(th, err) == [th EXCEPT !.pc = "done", !.err = err]

\* load() up to get_name(): nothing of pimpl->plugins is read or written.
instantiate(st, library_path) ==
    IF ~exists(library_path)
    THEN [st |-> st, err |-> LibraryNotFound, raw_instance |-> nullptr]
    ELSE IF dlopen(st, library_path).ret = NULL
    THEN [st |-> dlopen(st, library_path).st, err |-> LibraryOpenFailed,
          raw_instance |-> nullptr]
    ELSE IF missing_symbol(dlsym(library_path, "create_plugin"),
                           dlsym(library_path, "destroy_plugin"))
    THEN [st |-> dlclose(dlopen(st, library_path).st, library_path),
          err |-> MissingFactorySymbol, raw_instance |-> nullptr]
    ELSE IF create_plugin(dlopen(st, library_path).st, library_path).ret = nullptr
    THEN [st |-> dlclose(create_plugin(dlopen(st, library_path).st, library_path).st,
                         library_path),
          err |-> FactoryReturnedNull, raw_instance |-> nullptr]
    ELSE [st |-> create_plugin(dlopen(st, library_path).st, library_path).st,
          err |-> NoError,
          raw_instance |-> create_plugin(dlopen(st, library_path).st, library_path).ret]

\* pimpl->plugins[plugin_name]: the entry, made empty when there is none.
subscript(st, plugin_name) ==
    IF plugin_name \in DOMAIN st.plugins THEN st
    ELSE [st EXCEPT !.plugins = @ @@ (plugin_name :> PluginHandle(nullptr, NULL, NULL))]

\* pimpl->plugins[plugin_name].instance = { raw_instance, {destroyer} }: the
\* assignment of a unique_ptr deletes what the entry held before.
store_instance(st, plugin_name, raw_instance, destroyer) ==
    [reset(subscript(st, plugin_name), plugin_name)
        EXCEPT !.plugins[plugin_name].instance =
                   [ptr |-> raw_instance, destroyer |-> destroyer]]

\* pimpl->plugins[plugin_name].library_handle = handle
store_handle(st, plugin_name, handle) ==
    [subscript(st, plugin_name) EXCEPT !.plugins[plugin_name].library_handle = handle]

\* dlclose of a handle read from an entry: an error return for a null
\* handle or one the loader no longer knows.
dlclose_read(st, handle) ==
    IF handle = NULL \/ st.refcnt[handle] = 0 THEN st ELSE dlclose(st, handle)

\* The registry and thread t after a step of t.
ThreadStep(t, st, th) ==
    /\ Becomes(Fresh(st))
    /\ threads' = [threads EXCEPT !.running[t] = th]
    /\ UNCHANGED <<call, alive, bundle, abi, disk, canon, faults, tmpdir>>

At(t, op, pc) == threads.running[t].op = op /\ threads.running[t].pc = pc

\* load, lines 46-69.
LoadInstantiate(t) ==
    /\ At(t, "load", "start")
    /\ ThreadStep(t, instantiate(State, threads.running[t].arg).st,
          IF instantiate(State, threads.running[t].arg).err # NoError
          THEN Returned(threads.running[t],
                        instantiate(State, threads.running[t].arg).err)
          ELSE [threads.running[t] EXCEPT
                   !.pc = "contains",
                   !.handle = threads.running[t].arg,
                   !.raw_instance =
                       instantiate(State, threads.running[t].arg).raw_instance,
                   !.plugin_name =
                       get_name(instantiate(State, threads.running[t].arg).st,
                                instantiate(State, threads.running[t].arg).raw_instance)])

\* load, lines 71-75.
LoadContains(t) ==
    /\ At(t, "load", "contains")
    /\ IF threads.running[t].plugin_name \in DOMAIN plugins
       THEN ThreadStep(t, dlclose(destroy_plugin(State, threads.running[t].handle,
                                                 threads.running[t].raw_instance),
                                  threads.running[t].handle),
                       Returned(threads.running[t], NameCollision))
       ELSE ThreadStep(t, State, [threads.running[t] EXCEPT !.pc = "instance"])

\* load, line 77.
LoadStoreInstance(t) ==
    /\ At(t, "load", "instance")
    /\ ThreadStep(t, store_instance(State, threads.running[t].plugin_name,
                                    threads.running[t].raw_instance,
                                    threads.running[t].handle),
                  [threads.running[t] EXCEPT !.pc = "handle"])

\* load, line 78.
LoadStoreHandle(t) ==
    /\ At(t, "load", "handle")
    /\ ThreadStep(t, store_handle(State, threads.running[t].plugin_name,
                                  threads.running[t].handle),
                  Returned(threads.running[t], NoError))

\* unload, line 82.
UnloadFind(t) ==
    /\ At(t, "unload", "start")
    /\ ThreadStep(t, State,
          IF threads.running[t].arg \in DOMAIN plugins
          THEN [threads.running[t] EXCEPT !.pc = "reset",
                                          !.node = plugins[threads.running[t].arg]]
          ELSE Returned(threads.running[t], NoError))

\* The entry the iterator of t points to is still in the map.
IteratorValid(t) == threads.running[t].arg \in DOMAIN plugins

\* unload, line 83.  Through an iterator to an erased entry the thread sees
\* the freed node, whose pointer was null when it was freed, or faults.
UnloadReset(t) ==
    /\ At(t, "unload", "reset")
    /\ IF IteratorValid(t)
       THEN ThreadStep(t, reset(State, threads.running[t].arg),
                       [threads.running[t] EXCEPT !.pc = "dlclose"])
       ELSE \/ ThreadStep(t, State, [threads.running[t] EXCEPT !.pc = "dlclose"])
            \/ ThreadStep(t, State, Returned(threads.running[t], Undefined))

\* unload, line 85.
UnloadClose(t) ==
    /\ At(t, "unload", "dlclose")
    /\ IF IteratorValid(t)
       THEN ThreadStep(t, dlclose_read(State,
                                       plugins[threads.running[t].arg].library_handle),
                       [threads.running[t] EXCEPT !.pc = "erase"])
       ELSE \/ ThreadStep(t, dlclose_read(State,
                                          threads.running[t].node.library_handle),
                          [threads.running[t] EXCEPT !.pc = "erase"])
            \/ ThreadStep(t, State, Returned(threads.running[t], Undefined))

\* unload, line 86.  Erasing an erased entry frees its node a second time.
UnloadErase(t) ==
    /\ At(t, "unload", "erase")
    /\ IF IteratorValid(t)
       THEN ThreadStep(t, erase(State, threads.running[t].arg),
                       Returned(threads.running[t], NoError))
       ELSE \/ ThreadStep(t, State, Returned(threads.running[t], NoError))
            \/ ThreadStep(t, State, Returned(threads.running[t], Undefined))

\* get<T>, lines 146-149 of plugin_manager.h, with get_raw.
GetFind(t) ==
    /\ At(t, "get", "start")
    /\ ThreadStep(t, State,
          IF get_raw(State, threads.running[t].arg) = nullptr
          THEN Returned(threads.running[t], NotLoaded)
          ELSE [threads.running[t] EXCEPT
                   !.pc = "cast", !.plugin = get_raw(State, threads.running[t].arg)])

\* get<T>, lines 151-155: the dynamic_cast reads the object.  If the
\* object was deleted since it finds the bytes the object left, or faults.
GetCast(t) ==
    /\ At(t, "get", "cast")
    /\ \/ ThreadStep(t, State,
             [Returned(threads.running[t], NoError) EXCEPT
                 !.ret = dynamic_cast(State, "IPlugin", threads.running[t].plugin)])
       \/ /\ instances[threads.running[t].plugin].destroyed > 0
          /\ ThreadStep(t, State, Returned(threads.running[t], Undefined))

EmptyRegistry ==
    [plugins |-> <<>>, refcnt |-> [l \in Paths |-> 0], instances |-> <<>>,
     events |-> <<>>]

\* The threads start on an empty registry or on one that holds ValidPlugin.
StartStates == {EmptyRegistry, Fresh(load(EmptyRegistry, "valid_plugin").st)}

InitThreads ==
    /\ call = Call("PluginManager", "", "", NoError, nullptr, FALSE)
    /\ alive = TRUE
    /\ bundle = NoBundle
    /\ abi = NoAbi
    /\ disk = NoDisk
    /\ canon = NoCanon
    /\ faults = NoFaults
    /\ tmpdir = NoTmpdir
    /\ \E start \in StartStates, running \in [1..MaxThreads -> ThreadCalls] :
          /\ plugins = start.plugins
          /\ refcnt = start.refcnt
          /\ instances = start.instances
          /\ events = start.events
          /\ threads = [start |-> start,
                        running |-> [t \in 1..MaxThreads |-> Thread(running[t])]]

NextThreads ==
    \E t \in 1..MaxThreads :
        \/ LoadInstantiate(t)
        \/ LoadContains(t)
        \/ LoadStoreInstance(t)
        \/ LoadStoreHandle(t)
        \/ UnloadFind(t)
        \/ UnloadReset(t)
        \/ UnloadClose(t)
        \/ UnloadErase(t)
        \/ GetFind(t)
        \/ GetCast(t)

SpecThreads == InitThreads /\ [][NextThreads]_<<vars, others>>

(***************************************************************************)
(* Claims about concurrent calls.                                          *)
(***************************************************************************)
\* Every thread has left its member function.
Quiescent == \A t \in DOMAIN threads.running : threads.running[t].pc = "done"

\* The member function of a call run alone on st: the state it leaves and
\* the exception it throws.
alone(st, c) ==
    CASE c.op = "load" -> [st |-> load(st, c.arg).st, err |-> load(st, c.arg).err]
      [] c.op = "unload" -> [st |-> unload(st, c.arg), err |-> NoError]
      [] c.op = "get" -> [st |-> st, err |-> get(st, "IPlugin", c.arg).err]

\* The calls run one after the other.
RECURSIVE in_sequence(_, _)
in_sequence(st, calls) ==
    IF calls = <<>> THEN [st |-> st, errs |-> <<>>]
    ELSE [st |-> in_sequence(alone(st, Head(calls)).st, Tail(calls)).st,
          errs |-> <<alone(st, Head(calls)).err>>
                      \o in_sequence(alone(st, Head(calls)).st, Tail(calls)).errs]

\* What the registry holds: for every name the library that made the
\* instance and the library of the handle, and the open count of every
\* library.
Holds(st) ==
    [names |-> [n \in DOMAIN st.plugins |->
                  [made_by |-> IF st.plugins[n].instance.ptr = nullptr THEN NULL
                               ELSE st.instances[st.plugins[n].instance.ptr].lib,
                   library_handle |-> st.plugins[n].library_handle]],
     refcnt |-> st.refcnt]

\* The threads' calls run one after the other in this order leave the
\* registry as it is and throw what the threads threw.
SerialOrder(order) ==
    /\ Holds(State)
          = Holds(in_sequence(threads.start,
                              [i \in DOMAIN order |-> threads.running[order[i]]]).st)
    /\ \A i \in DOMAIN order :
          threads.running[order[i]].err
              = in_sequence(threads.start,
                            [j \in DOMAIN order |-> threads.running[order[j]]]).errs[i]

\* Every open library is the handle of one entry for each time it is open,
\* every instance was destroyed once or is held by exactly one entry, and
\* every entry holds a live instance.
NothingLostOrDestroyedTwice ==
    /\ \A l \in Paths :
          refcnt[l] = Cardinality({n \in DOMAIN plugins : plugins[n].library_handle = l})
    /\ \A p \in DOMAIN instances :
          /\ instances[p].destroyed <= 1
          /\ instances[p].destroyed = 0 =>
                Cardinality({n \in DOMAIN plugins : plugins[n].instance.ptr = p}) = 1
    /\ \A n \in DOMAIN plugins :
          /\ plugins[n].instance.ptr # nullptr
          /\ instances[plugins[n].instance.ptr].destroyed = 0

\* C24: when load, unload and get are called from several threads with no
\* serialization outside the manager, every interleaving leaves the
\* registry in a state that some sequential order of the calls produces,
\* with no instance or library handle lost, leaked or destroyed twice.
C24_ConcurrentCallsAreSerializable ==
    Quiescent =>
        /\ \A t \in DOMAIN threads.running : threads.running[t].err # Undefined
        /\ \E order \in Permutations(DOMAIN threads.running) : SerialOrder(order)
        /\ NothingLostOrDestroyedTwice

\* Two threads have loaded two libraries that report the same name: both
\* loads returned, one instance was destroyed by the other's assignment and
\* its library stays open with no entry for it.
C24_Witness ==
    /\ Quiescent
    /\ \A t \in DOMAIN threads.running :
          threads.running[t].op = "load" /\ threads.running[t].err = NoError
    /\ refcnt["valid_plugin"] = 1
    /\ refcnt["valid_plugin_moved"] = 1
    /\ DOMAIN plugins = {"ValidPlugin"}

(***************************************************************************)
(* Calls of parse_abi_signature on strings drawn from a bounded set: a     *)
(* head of one, two or three fields, a version field of up to              *)
(* MaxVersionChars characters, and a tail.                                 *)
(***************************************************************************)
MaxVersionChars == 3

SignatureHeads ==
    {<<"gcc", "-">>,
     <<"gcc", "-", "libstdc++", "-">>,
     <<"gcc", "-", "libstdc++", "-", "extra", "-">>}

VersionChars == {"3", "1", ".", "+", "x", " "}

VersionFields == UNION {[1..n -> VersionChars] : n \in 0..MaxVersionChars}

SignatureTails ==
    {<<>>, <<"-">>, <<"-", "cxx11_abi">>, <<"-", "cxx11_abi", "-">>}

InitParse ==
    /\ PluginManager
    /\ bundle = NoBundle
    /\ disk = NoDisk
    /\ canon = NoCanon
    /\ threads = NoThreads
    /\ faults = NoFaults
    /\ tmpdir = NoTmpdir
    /\ \E head \in SignatureHeads, version \in VersionFields, tail \in SignatureTails :
         abi = [phase |-> "parsing", sig_str |-> head \o version \o tail,
                ret |-> nullopt]

Parse ==
    /\ abi.phase = "parsing"
    /\ abi' = [abi EXCEPT !.phase = "parsed",
                          !.ret = parse_abi_signature(abi.sig_str)]
    /\ UNCHANGED <<vars, bundle, disk, canon, threads, faults, tmpdir>>

NextParse == Parse

SpecParse == InitParse /\ [][NextParse]_<<vars, others>>

\* The fields of s between the occurrences of delim: one more than there
\* are delimiters, empty fields among them.
RECURSIVE split(_, _)
split(s, delim) ==
    IF find(s, delim) = 0 THEN <<s>>
    ELSE <<SubSeq(s, 1, find(s, delim) - 1)>>
            \o split(SubSeq(s, find(s, delim) + 1, Len(s)), delim)

\* A non-negative integer: one digit or more and nothing else.
IsNonNegativeInteger(s) == s # <<>> /\ \A i \in DOMAIN s : isdigit(s[i])

\* A '.'-separated list of non-negative integers.
IsDottedVersion(s) ==
    \A i \in DOMAIN split(s, ".") : IsNonNegativeInteger(split(s, ".")[i])

\* <compiler>-<stdlib>-<dotted-integer-version>-<abi-tag>: exactly three
\* '-' separators and a version of non-negative integers.
IsAbiSignature(s) ==
    /\ Len(split(s, "-")) = 4
    /\ IsDottedVersion(split(s, "-")[3])

\* C32: parse_abi_signature accepts a string exactly when it has three '-'
\* separators (four fields) and its version field is a '.'-separated list
\* of non-negative integers; for an accepted string it returns the
\* compiler, library and ABI tag fields and the version as the list of
\* those integers; every other string is rejected.
C32_ParseAcceptsExactlyTheGrammar ==
    abi.phase = "parsed" =>
        /\ abi.ret.has_value <=> IsAbiSignature(abi.sig_str)
        /\ abi.ret.has_value =>
              /\ abi.ret.compiler = split(abi.sig_str, "-")[1]
              /\ abi.ret.library = split(abi.sig_str, "-")[2]
              /\ abi.ret.abi_type = split(abi.sig_str, "-")[4]
              /\ abi.ret.version_parts
                    = [i \in DOMAIN split(split(abi.sig_str, "-")[3], ".") |->
                          digits_value(split(split(abi.sig_str, "-")[3], ".")[i], 0)]

\* "gcc-libstdc++-3x-cxx11_abi" was parsed and accepted with version 3.
C32_Witness ==
    /\ abi.phase = "parsed"
    /\ abi.sig_str = <<"gcc", "-", "libstdc++", "-", "3", "x", "-", "cxx11_abi">>
    /\ abi.ret.has_value
    /\ abi.ret.version_parts = <<3>>

(***************************************************************************)
(* Claims about malformed ABI signatures in a manifest.                    *)
(***************************************************************************)
\* Some binary for the host triplet has an abi_signature that is not of the
\* form <compiler>-<stdlib>-<dotted-integer-version>-<abi-tag>.
HostBinaryUnparsable ==
    \E j \in DOMAIN Listed :
        /\ Listed[j].triplet = m_triplet
        /\ ~IsAbiSignature(Listed[j].abiSignature)

\* C31: a binary whose triplet differs from the host triplet is discarded
\* before its abi_signature is parsed: an unparsable abi_signature makes
\* construction fail with ManifestMalformed exactly when it belongs to a
\* binary whose triplet is the host triplet.
C31_UnparsableAbiFailsIffHostTriplet ==
    (Ran /\ ReachesSelection) =>
        (bundle.err \in {ManifestMalformed, AbiUnparsable} <=> HostBinaryUnparsable)

\* A bundle whose only binary is for the host triplet and has the version
\* "2.3x" was constructed.
C31_Witness ==
    /\ bundle.phase = "constructed"
    /\ Len(Listed) = 1
    /\ Listed[1].triplet = m_triplet
    /\ Listed[1].abiSignature = LetterVersionAbi

(***************************************************************************)
(* Teardown of a registry whose libraries can fail: dlclose of a library   *)
(* of faults.closing returns an error, the destructor of a plugin of a     *)
(* library of faults.throwing throws.                                      *)
(*   faults.logged      the failures the registry wrote to a log           *)
(*   faults.terminated  std::terminate was called                          *)
(***************************************************************************)
\* unload() in such a registry.  std::unique_ptr::reset is noexcept: an
\* exception that leaves the deleter calls std::terminate.  The value
\* dlclose returns is not read.
unload_failing(st, plugin_name, f) ==
    IF plugin_name \notin DOMAIN st.plugins THEN [st |-> st, f |-> f]
    ELSE IF st.instances[st.plugins[plugin_name].instance.ptr].lib \in f.throwing
    THEN [st |-> st, f |-> [f EXCEPT !.terminated = TRUE]]
    ELSE IF st.plugins[plugin_name].library_handle \in f.closing
    THEN [st |-> erase(Log(reset(st, plugin_name),
                           Ev("dlclose", st.plugins[plugin_name].library_handle,
                              nullptr, "")),
                       plugin_name),
          f |-> f]
    ELSE [st |-> unload(st, plugin_name), f |-> f]

\* The loop of ~PluginManager in such a registry: it ends with the process
\* when std::terminate is called.
RECURSIVE unload_each_failing(_, _, _)
unload_each_failing(st, names, f) ==
    IF names = <<>> \/ f.terminated THEN [st |-> st, f |-> f]
    ELSE unload_each_failing(unload_failing(st, Head(names), f).st, Tail(names),
                             unload_failing(st, Head(names), f).f)

LoadOrders ==
    {<<>>, <<"valid_plugin">>, <<"other_plugin">>,
     <<"valid_plugin", "other_plugin">>, <<"other_plugin", "valid_plugin">>}

RECURSIVE load_each(_, _)
load_each(st, library_paths) ==
    IF library_paths = <<>> THEN st
    ELSE load_each(load(st, Head(library_paths)).st, Tail(library_paths))

InitTeardown ==
    /\ call = Call("PluginManager", "", "", NoError, nullptr, FALSE)
    /\ alive = TRUE
    /\ bundle = NoBundle
    /\ abi = NoAbi
    /\ disk = NoDisk
    /\ canon = NoCanon
    /\ threads = NoThreads
    /\ tmpdir = NoTmpdir
    /\ \E order \in LoadOrders,
          closing \in SUBSET {"valid_plugin", "other_plugin"},
          throwing \in SUBSET {"valid_plugin", "other_plugin"} :
          /\ plugins = load_each(EmptyRegistry, order).plugins
          /\ refcnt = load_each(EmptyRegistry, order).refcnt
          /\ instances = load_each(EmptyRegistry, order).instances
          /\ events = <<>>
          /\ faults = [phase |-> "running", closing |-> closing,
                       throwing |-> throwing, logged |-> <<>>,
                       terminated |-> FALSE, held |-> {}]

\* The registry and the faults after a member function gave r.
TornDown(r, op, arg) ==
    /\ Becomes(r.st)
    /\ faults' = [r.f EXCEPT !.held = DOMAIN plugins]
    /\ call' = Call(op, arg, "", NoError, nullptr, FALSE)

UnloadFailing(plugin_name) ==
    /\ alive
    /\ ~faults.terminated
    /\ TornDown(unload_failing(Fresh(State), plugin_name, faults), "unload", plugin_name)
    /\ UNCHANGED <<alive, bundle, abi, disk, canon, threads, tmpdir>>

DestroyFailing ==
    /\ alive
    /\ ~faults.terminated
    /\ TornDown(unload_each_failing(Fresh(State), names_to_unload(State), faults),
                "~PluginManager", "")
    /\ alive' = FALSE
    /\ UNCHANGED <<bundle, abi, disk, canon, threads, tmpdir>>

NextTeardown ==
    \/ \E plugin_name \in PluginNames : UnloadFailing(plugin_name)
    \/ DestroyFailing

SpecTeardown == InitTeardown /\ [][NextTeardown]_<<vars, others>>

\* The entries, of those the registry held before the call, that the call
\* was to unload.
ToUnload ==
    IF call.op = "unload" THEN faults.held \cap {call.arg} ELSE faults.held

\* The failures the call met: the libraries of those entries whose dlclose
\* fails or whose plugin throws from its destructor.
FailuresMet ==
    {e.lib : e \in {events[i] : i \in DOMAIN events}} \cap faults.closing

\* C33: the registry destructor and unload never raise an error; a failure
\* while destroying an instance or closing a library is logged, not thrown,
\* and teardown goes on to unload the remaining handles.
C33_TeardownIsInfallible ==
    (faults.phase = "running" /\ call.op \in {"unload", "~PluginManager"}) =>
        /\ call.err = NoError
        /\ ~faults.terminated
        /\ ToUnload \cap DOMAIN plugins = {}
        /\ \A lib \in FailuresMet :
              \E i \in DOMAIN faults.logged : faults.logged[i] = lib

\* The destructor ran on a registry of two plugins, the first of which
\* throws from its destructor: the process was terminated with both
\* entries in the map.
C33_Witness ==
    /\ faults.phase = "running"
    /\ call.op = "~PluginManager"
    /\ faults.terminated
    /\ faults.throwing = {"other_plugin"}
    /\ DOMAIN plugins = {"OtherPlugin", "ValidPlugin"}

\* the names the call removed from the map, in the order of their removal
ErasedNames(evs) ==
    [i \in 1..Len(SelectSeq(evs, LAMBDA e : e.ev = "erase")) |->
        SelectSeq(evs, LAMBDA e : e.ev = "erase")[i].name]

\* the names of a set in ascending (byte) order
Ascending(names) == SelectSeq(NameOrder, LAMBDA n : n \in names)

\* C34: the destructor unloads the handles in ascending order of the plugin
\* names: the order is a function of the set of registered names, whatever
\* the order in which the plugins were loaded.
C34_TeardownOrderIsAscendingByName ==
    [][call'.op = "~PluginManager" =>
          ErasedNames(events') = Ascending(Registered)]_vars

\* the destructor ran on a registry into which ValidPlugin was loaded before
\* OtherPlugin, and unloaded OtherPlugin first
C34_Witness ==
    /\ call.op = "~PluginManager"
    /\ ErasedNames(events) = <<"OtherPlugin", "ValidPlugin">>
    /\ \E i, j \in DOMAIN events :
          /\ events[i].ev = "destroy" /\ events[j].ev = "destroy"
          /\ i < j
          /\ events[i].inst > events[j].inst

\* the registry after the step
StateNext ==
    [plugins |-> plugins', refcnt |-> refcnt', instances |-> instances',
     events |-> events']

\* C35: after unload(n), the load of a library whose plugin reports n
\* succeeds again and registers a newly created instance; get<T>(n) then
\* returns that instance, and no get ever returns a destroyed one.
C35_ReloadAfterUnloadGivesNewInstance ==
    [][/\ \A path \in Paths :
            (/\ call.op = "unload"
             /\ call'.op = "load" /\ call'.arg = path
             /\ Instantiates(path) /\ ReportedName(path) = call.arg) =>
               /\ call'.err = NoError
               /\ call.arg \in Registered'
               /\ plugins'[call.arg].instance.ptr \notin 1..Len(instances)
               /\ instances'[plugins'[call.arg].instance.ptr].destroyed = 0
               /\ instances'[plugins'[call.arg].instance.ptr].lib = path
               /\ \A T \in LibTable[path].bases :
                     /\ get(StateNext, T, call.arg).err = NoError
                     /\ get(StateNext, T, call.arg).ret
                           = plugins'[call.arg].instance.ptr
       /\ (call'.op = "get" /\ call'.err = NoError) =>
             /\ instances'[call'.ret].destroyed = 0
             /\ call'.ret = plugins'[call'.arg].instance.ptr]_vars

\* get returned the second instance of a plugin whose first instance was
\* destroyed by unload
C35_Witness ==
    /\ call.op = "get"
    /\ call.err = NoError
    /\ \E i \in 1..Len(instances) :
          /\ i < call.ret
          /\ instances[i].destroyed = 1
          /\ ReportedName(instances[i].lib) = call.arg
          /\ ReportedName(instances[call.ret].lib) = call.arg

\* the library handles opened and not yet closed: one for each reference
\* the loader holds
OpenHandles == UNION {{l} \X (1..refcnt[l]) : l \in Paths}

\* the plugin instances created and not yet destroyed
LiveInstances == {i \in 1..Len(instances) : instances[i].destroyed = 0}

\* C37: after any sequence of calls made one at a time, successful or
\* failing, there are as many open library handles as registry entries and
\* as many live plugin instances as registry entries: the open handles and
\* the live instances are exactly those the entries hold.
C37_NoHandleOrInstanceLeaks ==
    /\ Cardinality(OpenHandles) = Cardinality(Registered)
    /\ Cardinality(LiveInstances) = Cardinality(Registered)
    /\ LiveInstances = {plugins[n].instance.ptr : n \in Registered}
    /\ \A l \in Paths :
          refcnt[l] = Cardinality({n \in Registered : plugins[n].library_handle = l})
    /\ \A i \in 1..Len(instances) : instances[i].destroyed <= 1

\* a load failed on a name collision in a registry that holds two plugins
\* and has unloaded a third instance before
C37_Witness ==
    /\ call.op = "load"
    /\ call.err = NameCollision
    /\ Cardinality(Registered) = 2
    /\ Cardinality(LiveInstances) = 2
    /\ Len(instances) = 3

\* C39: every entry of the map has a non-null instance and a non-null
\* library handle, its key is the name its instance reports, and the
\* destroyer stored with the instance was resolved from the library that
\* created it, which is the library the entry's handle keeps open; an
\* instance is only ever destroyed by the destroy_plugin of its own library.
C39_EntriesAreWellFormed ==
    /\ \A n \in Registered :
          /\ plugins[n].instance.ptr /= nullptr
          /\ plugins[n].library_handle /= NULL
          /\ get_name(State, plugins[n].instance.ptr) = n
          /\ plugins[n].instance.destroyer
                = dlsym(instances[plugins[n].instance.ptr].lib, "destroy_plugin")
          /\ plugins[n].instance.destroyer /= NULL
          /\ plugins[n].library_handle = instances[plugins[n].instance.ptr].lib
          /\ refcnt[plugins[n].library_handle] > 0
    /\ \A i \in 1..Len(instances) :
          instances[i].destroyed > 0 =>
             instances[i].destroyedBy = dlsym(instances[i].lib, "destroy_plugin")

\* the registry holds plugins of two libraries and has destroyed an
\* instance of a third
C39_Witness ==
    /\ alive
    /\ Cardinality(Registered) = 2
    /\ \E i \in 1..Len(instances) :
          /\ instances[i].destroyed = 1
          /\ \A n \in Registered : plugins[n].library_handle /= instances[i].lib

\* verify_bundle, called on the bundle's manifest with the host's keyring,
\* returns true: it throws nothing and leaves m_signed and m_trusted set.
VerifyBundleReturnsTrue ==
    /\ ReachesVerification
    /\ verify_bundle(bundle.archive.manifest, bundle.archive.modified,
                     bundle.keyring).err = NoError
    /\ verify_bundle(bundle.archive.manifest, bundle.archive.modified,
                     bundle.keyring).signed
    /\ verify_bundle(bundle.archive.manifest, bundle.archive.modified,
                     bundle.keyring).trusted

\* The construction called the registry: it reached PluginBundle::load with
\* a binary to open, or something happened in the registry.
RegistryCalled ==
    \/ bundle.dispatched > 0
    \/ events # <<>>
    \/ plugins # <<>>
    \/ instances # <<>>
    \/ \E l \in Paths : refcnt[l] # 0

MaxWorkspaces == 2

MaxRandomStrings == 2

Workspaces == 1..MaxWorkspaces

\* The values random_string(10) can return: the draws are independent, so
\* every value can come up at every call.
RandomStrings == 1..MaxRandomStrings

\* std::filesystem::path(): the empty path
EmptyPath == 0

\* The owner of the files that were in the temporary directory before.
Foreign == MaxWorkspaces + 1

\* std::filesystem::create_directory: makes the directory and returns true,
\* or returns false, without an error, when the directory exists already.
create_directory(dirs, p) ==
    IF p \in DOMAIN dirs THEN dirs ELSE dirs @@ (p :> {})

\* std::filesystem::remove_all
remove_all(dirs, p) == [d \in DOMAIN dirs \ {p} |-> dirs[d]]

\* TemporaryDirectory::cleanup
cleanup_directory(dirs, directoryPath) ==
    IF directoryPath # EmptyPath /\ directoryPath \in DOMAIN dirs
    THEN remove_all(dirs, directoryPath)
    ELSE dirs

InitWorkspace ==
    /\ PluginManager
    /\ bundle = NoBundle
    /\ abi = NoAbi
    /\ disk = NoDisk
    /\ canon = NoCanon
    /\ threads = NoThreads
    /\ faults = NoFaults
    /\ \E existing \in SUBSET RandomStrings :
          tmpdir = [phase |-> "running",
                    dirs |-> [d \in existing |-> {Foreign}],
                    scope |-> [w \in Workspaces |-> "unborn"],
                    directoryPath |-> [w \in Workspaces |-> EmptyPath],
                    wrote |-> [w \in Workspaces |-> FALSE]]

\* TemporaryDirectory::TemporaryDirectory()
NewTemporaryDirectory(w) ==
    /\ tmpdir.scope[w] = "unborn"
    /\ \E unique \in RandomStrings :
          tmpdir' = [tmpdir EXCEPT !.scope[w] = "alive",
                                   !.directoryPath[w] = unique,
                                   !.dirs = create_directory(@, unique)]
    /\ UNCHANGED <<vars, bundle, abi, disk, canon, threads, faults>>

\* unpackBundle writes the files of the archive under the workspace's path.
UnpackInto(w) ==
    /\ tmpdir.scope[w] = "alive"
    /\ tmpdir.directoryPath[w] \in DOMAIN tmpdir.dirs
    /\ ~tmpdir.wrote[w]
    /\ tmpdir' = [tmpdir EXCEPT !.dirs[tmpdir.directoryPath[w]] = @ \cup {w},
                                !.wrote[w] = TRUE]
    /\ UNCHANGED <<vars, bundle, abi, disk, canon, threads, faults>>

\* TemporaryDirectory::~TemporaryDirectory()
ReleaseTemporaryDirectory(w) ==
    /\ tmpdir.scope[w] = "alive"
    /\ tmpdir' = [tmpdir EXCEPT !.dirs = cleanup_directory(@, tmpdir.directoryPath[w]),
                                !.scope[w] = "released"]
    /\ UNCHANGED <<vars, bundle, abi, disk, canon, threads, faults>>

NextWorkspace ==
    \/ \E w \in Workspaces : NewTemporaryDirectory(w)
    \/ \E w \in Workspaces : UnpackInto(w)
    \/ \E w \in Workspaces : ReleaseTemporaryDirectory(w)

SpecWorkspace == InitWorkspace /\ [][NextWorkspace]_<<vars, others>>

\* The workspaces that have been acquired and not released.
LiveWorkspaces == {w \in Workspaces : tmpdir.scope[w] = "alive"}

\* C36: two workspaces alive at the same time never have the same path; a
\* workspace's directory is owned by no other workspace and was no
\* directory that existed before, so that the release of one workspace
\* never removes the files of another: the files a live workspace unpacked
\* are still in its directory.
C36_LiveWorkspacesHaveDistinctPaths ==
    tmpdir.phase = "running" =>
       /\ \A w1, w2 \in LiveWorkspaces :
             tmpdir.directoryPath[w1] = tmpdir.directoryPath[w2] => w1 = w2
       /\ \A w \in LiveWorkspaces :
             /\ tmpdir.directoryPath[w] \in DOMAIN tmpdir.dirs =>
                   Foreign \notin tmpdir.dirs[tmpdir.directoryPath[w]]
             /\ tmpdir.wrote[w] =>
                   /\ tmpdir.directoryPath[w] \in DOMAIN tmpdir.dirs
                   /\ w \in tmpdir.dirs[tmpdir.directoryPath[w]]

\* Two workspaces drew the same name; the release of the first removed the
\* directory into which the second, still alive, had unpacked its files.
C36_Witness ==
    /\ tmpdir.phase = "running"
    /\ \E w1, w2 \in Workspaces :
          /\ tmpdir.scope[w1] = "released"
          /\ tmpdir.scope[w2] = "alive"
          /\ tmpdir.wrote[w2]
          /\ tmpdir.directoryPath[w1] = tmpdir.directoryPath[w2]
          /\ tmpdir.directoryPath[w2] \notin DOMAIN tmpdir.dirs

====
